---- MODULE Spec2Model ----
(***************************************************************************)
(* A model of the jaxp XML tokenizer (tokenize.rs over the CharIter cursor  *)
(* of chariter.rs, the character classes of xmlchar.rs, decode_hex of       *)
(* util.rs) and of the tree builder of parse.rs.                            *)
(*                                                                         *)
(* The text buffer is a sequence of bytes (0..255) holding valid UTF-8.     *)
(* Cursor positions are 0-based byte offsets as in the source; the byte at  *)
(* offset p is t[p + 1].  A TextRange is [start, end), a record.            *)
(*                                                                         *)
(* Every fallible operation returns a record whose field k is              *)
(*   "ok"    the Rust Ok(..) (with the cursor position pos afterwards),     *)
(*   "err"   the Rust Err(e) (e in field err; pos is the cursor position    *)
(*           the call leaves behind, which matters where the caller drops   *)
(*           the result without `?`),                                       *)
(*   "hang"  the call never returns (a loop iteration that leaves the       *)
(*           cursor, the loop's only state, unchanged),                     *)
(*   "panic" the call panics (index or slice out of bounds).                *)
(***************************************************************************)
EXTENDS Integers, Sequences, FiniteSets, TLC

(***************************************************************************)
(* Bytes.  Code maps the one-character strings used to write inputs and     *)
(* delimiters to their ASCII codes; Str turns a tuple of them into bytes.   *)
(***************************************************************************)
Code ==
    (" " :> 32) @@ ("\n" :> 10) @@ ("\t" :> 9) @@ ("\r" :> 13) @@ ("!" :> 33) @@ ("#" :> 35)
    @@ ("$" :> 36) @@ ("%" :> 37) @@ ("&" :> 38) @@ ("'" :> 39) @@ ("(" :> 40) @@ (")" :> 41)
    @@ ("*" :> 42) @@ ("+" :> 43) @@ ("," :> 44) @@ ("-" :> 45) @@ ("." :> 46) @@ ("/" :> 47)
    @@ ("0" :> 48) @@ ("1" :> 49) @@ ("2" :> 50) @@ ("3" :> 51) @@ ("4" :> 52) @@ ("5" :> 53)
    @@ ("6" :> 54) @@ ("7" :> 55) @@ ("8" :> 56) @@ ("9" :> 57) @@ (":" :> 58) @@ (";" :> 59)
    @@ ("<" :> 60) @@ ("=" :> 61) @@ (">" :> 62) @@ ("?" :> 63) @@ ("@" :> 64) @@ ("A" :> 65)
    @@ ("B" :> 66) @@ ("C" :> 67) @@ ("D" :> 68) @@ ("E" :> 69) @@ ("F" :> 70) @@ ("G" :> 71)
    @@ ("H" :> 72) @@ ("I" :> 73) @@ ("J" :> 74) @@ ("K" :> 75) @@ ("L" :> 76) @@ ("M" :> 77)
    @@ ("N" :> 78) @@ ("O" :> 79) @@ ("P" :> 80) @@ ("Q" :> 81) @@ ("R" :> 82) @@ ("S" :> 83)
    @@ ("T" :> 84) @@ ("U" :> 85) @@ ("V" :> 86) @@ ("W" :> 87) @@ ("X" :> 88) @@ ("Y" :> 89)
    @@ ("Z" :> 90) @@ ("[" :> 91) @@ ("]" :> 93) @@ ("_" :> 95) @@ ("a" :> 97)
    @@ ("b" :> 98) @@ ("c" :> 99) @@ ("d" :> 100) @@ ("e" :> 101) @@ ("f" :> 102) @@ ("g" :> 103)
    @@ ("h" :> 104) @@ ("i" :> 105) @@ ("j" :> 106) @@ ("k" :> 107) @@ ("l" :> 108) @@ ("m" :> 109)
    @@ ("n" :> 110) @@ ("o" :> 111) @@ ("p" :> 112) @@ ("q" :> 113) @@ ("r" :> 114) @@ ("s" :> 115)
    @@ ("t" :> 116) @@ ("u" :> 117) @@ ("v" :> 118) @@ ("w" :> 119) @@ ("x" :> 120) @@ ("y" :> 121)
    @@ ("z" :> 122) @@ ("\"" :> 34)

Ch(s) == Code[s]

Str(s) == [i \in 1..Len(s) |-> Code[s[i]]]


(***************************************************************************)
(* UTF-8.  len_utf8 is char::len_utf8; Utf8 encodes one scalar value (the   *)
(* buffer is a Rust &str and so always valid UTF-8); CharAt is what         *)
(* `self.text[self.pos..].chars().next().unwrap()` decodes at a character   *)
(* boundary, and -1 where that slice panics (pos inside a character).       *)
(***************************************************************************)
len_utf8(c) ==
    IF c < 128 THEN 1 ELSE IF c < 2048 THEN 2 ELSE IF c < 65536 THEN 3 ELSE 4

Utf8(c) ==
    IF c < 128 THEN <<c>>
    ELSE IF c < 2048 THEN <<192 + (c \div 64), 128 + (c % 64)>>
    ELSE IF c < 65536
         THEN <<224 + (c \div 4096), 128 + ((c \div 64) % 64), 128 + (c % 64)>>
         ELSE <<240 + (c \div 262144), 128 + ((c \div 4096) % 64),
                128 + ((c \div 64) % 64), 128 + (c % 64)>>

is_char_boundary(t, p) ==
    p = 0 \/ p = Len(t) \/ (p > 0 /\ p < Len(t) /\ (t[p + 1] < 128 \/ t[p + 1] >= 192))

CharAt(t, p) ==
    LET b == t[p + 1] IN
    IF b < 128 THEN b
    ELSE IF b < 192 THEN -1
    ELSE IF b < 224 THEN (b - 192) * 64 + (t[p + 2] - 128)
    ELSE IF b < 240
         THEN (b - 224) * 4096 + (t[p + 2] - 128) * 64 + (t[p + 3] - 128)
         ELSE (b - 240) * 262144 + (t[p + 2] - 128) * 4096
              + (t[p + 3] - 128) * 64 + (t[p + 4] - 128)

(***************************************************************************)
(* xmlchar.rs: the character classes.                                       *)
(***************************************************************************)
is_xml_whitespace(b) == b \in {32, 10, 9, 13}

is_xml_quote(b) == b \in {34, 39}

is_ascii_digit(c) == c >= 48 /\ c <= 57

is_ascii_alphabetic(b) == (b >= 65 /\ b <= 90) \/ (b >= 97 /\ b <= 122)

is_ascii_alphanumeric(b) == is_ascii_alphabetic(b) \/ is_ascii_digit(b)

is_xml_pubid_char(b) ==
    \/ is_ascii_alphanumeric(b)
    \/ b \in {32, 10, 13, 45, 39, 40, 41, 43, 44, 46, 47, 58, 61, 63, 33, 42, 35, 64,
              36, 95, 37}

is_xml_char(c) ==
    \/ c \in {9, 10, 13}
    \/ (c >= 32 /\ c <= 55295)
    \/ (c >= 57344 /\ c <= 65533)
    \/ (c >= 65536 /\ c <= 1114111)

is_xml_name_start_char(c) ==
    \/ c = 58 \/ (c >= 65 /\ c <= 90) \/ c = 95 \/ (c >= 97 /\ c <= 122)
    \/ (c >= 192 /\ c <= 214)
    \/ (c >= 216 /\ c <= 246)
    \/ (c >= 248 /\ c <= 767)
    \/ (c >= 880 /\ c <= 893)
    \/ (c >= 895 /\ c <= 8191)
    \/ (c >= 8204 /\ c <= 8205)
    \/ (c >= 8304 /\ c <= 8591)
    \/ (c >= 11264 /\ c <= 12271)
    \/ (c >= 12289 /\ c <= 55295)
    \/ (c >= 63744 /\ c <= 64975)
    \/ (c >= 65008 /\ c <= 65533)
    \/ (c >= 65536 /\ c <= 983039)

is_xml_name_char(c) ==
    \/ is_xml_name_start_char(c)
    \/ c = 45 \/ c = 46 \/ (c >= 48 /\ c <= 57)
    \/ c = 183
    \/ (c >= 768 /\ c <= 879)
    \/ (c >= 8255 /\ c <= 8256)

(***************************************************************************)
(* Results and errors.  An XmlError is [kind, start, end]: the byte range   *)
(* of error.rs's XmlErrorRange (its `input` is always the whole text).      *)
(***************************************************************************)
Ok(p) == [k |-> "ok", pos |-> p]

Fail(e, p) == [k |-> "err", err |-> e, pos |-> p]

Hang == [k |-> "hang"]

Panic == [k |-> "panic"]

TextRange(s, e) == [start |-> s, end |-> e]

slice(t, r) == SubSeq(t, r.start + 1, r.end)

is_empty(r) == r.start >= r.end

UnexpectedEndOfFile(t) == [kind |-> "UnexpectedEndOfFile", start |-> 0, end |-> Len(t)]

\* cs.error_slice(a..b) of tokenize.rs: the XmlErrorRange {start: a, end: b, input}.
error_slice(a, b) == TextRange(a, b)

IllegalToken(r) == [kind |-> "IllegalToken", start |-> r.start, end |-> r.end]

UnknownReference(r) == [kind |-> "UnknownReference", start |-> r.start, end |-> r.end]

\* chariter.rs reports IllegalToken at error_pos(), the position self.pos;
\* the range form of that error is the one byte at the cursor.
error_pos(p) == error_slice(p, p + 1)

IllegalTokenHere(p) == IllegalToken(error_pos(p))

\* XmlError::get_target: the text of the error's range (the end tag's range for
\* NonMatchingTags, the whole input for UnexpectedEndOfFile); <<-1>> where the
\* slice `input[start..end]` panics.
get_target(t, e) ==
    IF e.start <= e.end /\ e.end <= Len(t)
         /\ is_char_boundary(t, e.start) /\ is_char_boundary(t, e.end)
    THEN SubSeq(t, e.start + 1, e.end)
    ELSE <<-1>>


(***************************************************************************)
(* Sequencing.  Try(r, K) is Rust's `?`: a result that is not Ok is the     *)
(* result of the whole function, otherwise the function goes on as K with   *)
(* the value.  Then(v, K) is a statement whose value is only bound (let)    *)
(* or whose Result is dropped: the function goes on whatever it is.         *)
(***************************************************************************)
Try(r, K(_)) == IF r.k # "ok" THEN r ELSE K(r)

Then(v, K(_)) == K(v)

(***************************************************************************)
(* chariter.rs: the cursor.  t is the text, p the position.                 *)
(***************************************************************************)
has_next(t, p) == p < Len(t)

\* error_pos() asserts pos < text.len() before it resolves the position.
IllegalTokenAtCursor(t, p) ==
    IF p < Len(t) THEN Fail(IllegalTokenHere(p), p) ELSE Panic

peek_byte(t, p) ==
    IF ~has_next(t, p) THEN Fail(UnexpectedEndOfFile(t), p)
    ELSE [k |-> "ok", pos |-> p, b |-> t[p + 1]]

\* A next_byte that leaves the cursor where it is.
next_byte_no_advance(t, p) == peek_byte(t, p)

next_byte(t, p) ==
    Try(peek_byte(t, p), LAMBDA pb : [k |-> "ok", pos |-> p + 1, b |-> pb.b])

peek_xml_char(t, p) ==
    Try(peek_byte(t, p), LAMBDA pb :
    Then(IF pb.b < 128 THEN pb.b ELSE CharAt(t, p), LAMBDA c :
        IF c = -1 THEN Panic
        ELSE IF ~is_xml_char(c) THEN IllegalTokenAtCursor(t, p)
        ELSE [k |-> "ok", pos |-> p, c |-> c]))

next_xml_char(t, p) ==
    Try(peek_xml_char(t, p), LAMBDA c :
        [k |-> "ok", pos |-> p + len_utf8(c.c), c |-> c.c])

advance_n(t, p, n) ==
    IF ~has_next(t, p) THEN Fail(UnexpectedEndOfFile(t), p) ELSE Ok(p + n)

skip_over(t, p, expected) == advance_n(t, p, Len(expected))

RECURSIVE skip_spaces(_, _)
skip_spaces(t, p) ==
    Try(peek_byte(t, p), LAMBDA pb :
        IF is_xml_whitespace(pb.b) THEN skip_spaces(t, p + 1) ELSE Ok(p))

test(t, p, bytes) ==
    p + Len(bytes) <= Len(t) /\ SubSeq(t, p + 1, p + Len(bytes)) = bytes

test_byte(t, p, b) == p < Len(t) /\ t[p + 1] = b

\* A test_after_spaces that does not put the position back.
test_after_spaces_no_restore(t, p, bytes) ==
    Then(skip_spaces(t, p), LAMBDA sp :
        [pos |-> sp.pos, b |-> test(t, sp.pos, bytes)])

\* test_after_spaces with the cursor it leaves: it saves the position, skips
\* spaces (the Result is dropped), tests, and restores the position.
test_after_spaces_step(t, p, bytes) ==
    Then(p, LAMBDA start_pos :
    Then(skip_spaces(t, p), LAMBDA sp :
        [pos |-> start_pos, b |-> test(t, sp.pos, bytes)]))

test_after_spaces(t, p, bytes) == test_after_spaces_step(t, p, bytes).b

expect_bytes(t, p, expected) ==
    IF ~test(t, p, expected) THEN IllegalTokenAtCursor(t, p)
    ELSE Ok(p + Len(expected))

expect_byte(t, p, expected) ==
    Try(peek_byte(t, p), LAMBDA pb :
        IF pb.b # expected THEN IllegalTokenAtCursor(t, p) ELSE Ok(p + 1))

\* An expect_spaces that does not insist on a space.
expect_spaces_or_none(t, p) == skip_spaces(t, p)

expect_spaces(t, p) ==
    Try(peek_byte(t, p), LAMBDA pb :
        IF ~is_xml_whitespace(pb.b) THEN IllegalTokenAtCursor(t, p)
        ELSE skip_spaces(t, p))

(***************************************************************************)
(* util.rs: decode_hex.  The reference is cut into two-byte pieces from     *)
(* the left (the last piece is one byte when the length is odd), each piece *)
(* parsed by u8::from_str_radix(_, 16), and the bytes assembled big-endian  *)
(* into a u32.                                                              *)
(***************************************************************************)
\* char::to_digit(16) of one byte; -1 for no digit
HexDigit(b) ==
    IF b >= 48 /\ b <= 57 THEN b - 48
    ELSE IF b >= 97 /\ b <= 102 THEN b - 87
    ELSE IF b >= 65 /\ b <= 70 THEN b - 55
    ELSE -1

\* u8::from_str_radix(s, 16) for a piece s of one or two bytes: an optional
\* leading '+', then digits; -1 for Err.
from_str_radix_u8(s) ==
    LET digits == IF s[1] = 43 /\ Len(s) > 1 THEN Tail(s) ELSE s IN
    IF \E i \in 1..Len(digits) : HexDigit(digits[i]) = -1 THEN -1
    ELSE IF Len(digits) = 1 THEN HexDigit(digits[1])
    ELSE 16 * HexDigit(digits[1]) + HexDigit(digits[2])

\* the piece starting at byte i (0-based) of the reference
HexPiece(reference, i) ==
    IF i = Len(reference) - 1 THEN SubSeq(reference, i + 1, Len(reference))
    ELSE SubSeq(reference, i + 1, i + 2)

\* byte_vec: one entry per piece
byte_vec(reference) ==
    [j \in 1..((Len(reference) + 1) \div 2) |->
        from_str_radix_u8(HexPiece(reference, 2 * (j - 1)))]

\* The loop over byte_vec: res = (res << 8) + byte.  At most 4 bytes are
\* shifted into the u32, so no bit is lost; a value already above char::MAX
\* only grows, char::from_u32 rejects it whatever it becomes, and it is kept
\* as it is instead of being shifted further.
RECURSIVE assemble(_, _, _)
assemble(bv, i, res) ==
    IF i > Len(bv) THEN res
    ELSE IF bv[i] = -1 THEN -1
    ELSE IF res > 1114111 THEN assemble(bv, i + 1, res)
    ELSE assemble(bv, i + 1, res * 256 + bv[i])

\* char::from_u32: no surrogate, at most 0x10FFFF
is_scalar_value(n) == n >= 0 /\ n <= 1114111 /\ ~(n >= 55296 /\ n <= 57343)

\* the str slices &reference[i..i + 2] panic off a character boundary
HexPiecesOnBoundaries(reference) ==
    \A j \in 1..((Len(reference) + 1) \div 2) :
        /\ is_char_boundary(reference, 2 * (j - 1))
        /\ is_char_boundary(reference,
              IF 2 * (j - 1) = Len(reference) - 1 THEN Len(reference) ELSE 2 * j)

decode_hex(reference) ==
    IF ~HexPiecesOnBoundaries(reference) THEN [k |-> "panic", c |-> -1]
    ELSE LET bv == byte_vec(reference) IN
         IF Len(bv) > 4 \/ Len(bv) = 0 THEN [k |-> "none", c |-> -1]
         ELSE LET res == assemble(bv, 1, 0) IN
              IF res = -1 THEN [k |-> "none", c |-> -1]
              ELSE IF ~is_scalar_value(res) THEN [k |-> "none", c |-> -1]
              ELSE IF ~is_xml_char(res) THEN [k |-> "none", c |-> -1]
              ELSE [k |-> "some", c |-> res]

\* u32::from_str: an optional leading '+', then decimal digits, no overflow;
\* -1 for Err.  A value above char::MAX is kept as it is: the caller answers
\* an overflow (Err) and a value char::from_u32 rejects with the same error.
RECURSIVE decimal_value(_, _, _)
decimal_value(digits, i, acc) ==
    IF acc = -1 \/ i > Len(digits) THEN acc
    ELSE IF ~is_ascii_digit(digits[i]) THEN -1
    ELSE IF acc > 1114111 THEN decimal_value(digits, i + 1, acc)
    ELSE decimal_value(digits, i + 1, acc * 10 + (digits[i] - 48))

u32_from_str(s) ==
    IF Len(s) = 0 THEN -1
    ELSE LET digits == IF s[1] = 43 /\ Len(s) > 1 THEN Tail(s) ELSE s IN
         decimal_value(digits, 1, 0)


(***************************************************************************)
(* token.rs as tokenize.rs builds it: the XmlToken variants.  An Option is  *)
(* a sequence of length 0 (None) or 1 (Some).                               *)
(***************************************************************************)
None == <<>>

Some(x) == <<x>>

Text(r) == [type |-> "Text", range |-> r]

StartTag(r) == [type |-> "StartTag", range |-> r]

EndTag(r) == [type |-> "EndTag", range |-> r]

Comment(r) == [type |-> "Comment", range |-> r]

CdataSection(r) == [type |-> "CdataSection", range |-> r]

ParameterEntityReference(r) == [type |-> "ParameterEntityReference", range |-> r]

Attribute(n, v) == [type |-> "Attribute", name_range |-> n, value_range |-> v]

ProcessingInstruction(tr, ov) ==
    [type |-> "ProcessingInstruction", target_range |-> tr, opt_value_range |-> ov]

XmlDeclaration(v, oe, os) ==
    [type |-> "XmlDeclaration", version_range |-> v, opt_encoding_range |-> oe,
     opt_standalone_range |-> os]

DocTypeDeclaration(n, osys, opub) ==
    [type |-> "DocTypeDeclaration", name_range |-> n,
     opt_system_entity_range |-> osys, opt_public_entity_range |-> opub]

\* Ok(range) and Ok(tokens) of the tokenizer's productions
OkRange(p, r) == [k |-> "ok", pos |-> p, range |-> r]

OkTokens(p, toks) == [k |-> "ok", pos |-> p, tokens |-> toks]

(***************************************************************************)
(* tokenize.rs: the delimiters.                                             *)
(***************************************************************************)
XmlDeclStart == Str(<<"<", "?", "x", "m", "l">>)

CommentStart == Str(<<"<", "!", "-", "-">>)

CommentEnd == Str(<<"-", "-", ">">>)

DoubleHyphen == Str(<<"-", "-">>)

HyphenCommentEnd == Str(<<"-", "-", "-", ">">>)

PIStart == Str(<<"<", "?">>)

PIEnd == Str(<<"?", ">">>)

DoctypeStart == Str(<<"<", "!", "D", "O", "C", "T", "Y", "P", "E">>)

CdataStart == Str(<<"<", "!", "[", "C", "D", "A", "T", "A", "[">>)

CdataEnd == Str(<<"]", "]", ">">>)

EndTagStart == Str(<<"<", "/">>)

EmptyTagEnd == Str(<<"/", ">">>)

TagEnd == Str(<<">">>)

TagStart == Str(<<"<">>)

HexRefStart == Str(<<"#", "x">>)

DecRefStart == Str(<<"#">>)

RefEnd == Str(<<";">>)

ShortHands ==
    {Str(<<"a", "m", "p">>), Str(<<"l", "t">>), Str(<<"g", "t">>),
     Str(<<"a", "p", "o", "s">>), Str(<<"q", "u", "o", "t">>)}

(***************************************************************************)
(* tokenize.rs: names, character data and references.                       *)
(***************************************************************************)
RECURSIVE name_loop(_, _)
name_loop(t, p) ==
    Try(peek_xml_char(t, p), LAMBDA c :
        IF is_xml_name_char(c.c) THEN name_loop(t, p + len_utf8(c.c)) ELSE Ok(p))

\* A consume_name that takes any first character.
consume_name_any_start(t, p) ==
    Try(next_xml_char(t, p), LAMBDA c :
        Try(name_loop(t, c.pos), LAMBDA l :
            OkRange(l.pos, TextRange(p, l.pos))))

consume_name(t, p) ==
    Try(next_xml_char(t, p), LAMBDA c :
        IF ~is_xml_name_start_char(c.c)
        THEN Fail(IllegalToken(error_slice(p, c.pos)), c.pos)
        ELSE Try(name_loop(t, c.pos), LAMBDA l :
                 OkRange(l.pos, TextRange(p, l.pos))))

RECURSIVE xml_chars_loop(_, _, _)
xml_chars_loop(t, p, delimiter) ==
    IF test(t, p, delimiter) THEN Ok(p)
    ELSE Try(next_xml_char(t, p), LAMBDA c : xml_chars_loop(t, c.pos, delimiter))

consume_xml_chars_until(t, p, delimiter) ==
    Try(xml_chars_loop(t, p, delimiter), LAMBDA l :
        OkRange(l.pos, TextRange(p, l.pos)))

\* the body of a reference, after `&` and its prefix, up to `;`
reference_is_known(t, p, body) ==
    IF test(t, p, HexRefStart) THEN decode_hex(slice(t, body)).k = "some"
    ELSE IF test(t, p, DecRefStart)
         THEN Then(u32_from_str(slice(t, body)), LAMBDA codepoint :
                  codepoint # -1 /\ is_scalar_value(codepoint) /\ is_xml_char(codepoint))
    ELSE slice(t, body) \in ShortHands

consume_character_reference(t, p) ==
    Try(expect_byte(t, p, Ch("&")), LAMBDA amp :
    Then(IF test(t, amp.pos, HexRefStart) THEN amp.pos + Len(HexRefStart)
         ELSE IF test(t, amp.pos, DecRefStart) THEN amp.pos + Len(DecRefStart)
         ELSE amp.pos, LAMBDA q :
    Try(consume_xml_chars_until(t, q, RefEnd), LAMBDA body :
        IF test(t, amp.pos, HexRefStart) /\ decode_hex(slice(t, body.range)).k = "panic"
        THEN Panic
        ELSE IF ~reference_is_known(t, amp.pos, body.range)
        THEN Fail(UnknownReference(error_slice(p, body.range.end + 1)), body.pos)
        ELSE OkRange(body.pos + Len(RefEnd), TextRange(p, body.pos + Len(RefEnd))))))

\* One iteration of the loop of consume_character_data_until: "break" leaves
\* the loop, "continue" goes round again with the cursor at pos.
character_data_iter(t, p, delimiter) ==
    Try(peek_xml_char(t, p), LAMBDA c :
        IF c.c = delimiter THEN [k |-> "break", pos |-> p]
        ELSE IF c.c = Ch("]")
             THEN IF test(t, p, CdataEnd)
                  THEN Fail(IllegalToken(error_slice(p, p + Len(CdataEnd))), p)
                  ELSE [k |-> "continue", pos |-> p]
        ELSE IF c.c = Ch("&")
             THEN Try(consume_character_reference(t, p), LAMBDA r :
                      [k |-> "continue", pos |-> r.pos])
        ELSE IF c.c = Ch("<")
             THEN Fail(IllegalToken(error_slice(p, p + 1)), p)
        ELSE [k |-> "continue", pos |-> p + len_utf8(c.c)])

\* The loop: an iteration that continues without moving the cursor repeats
\* itself for ever, since the cursor is all the loop reads.
RECURSIVE character_data_loop(_, _, _)
character_data_loop(t, p, delimiter) ==
    Then(character_data_iter(t, p, delimiter), LAMBDA i :
        IF i.k = "break" THEN Ok(p)
        ELSE IF i.k # "continue" THEN i
        ELSE IF i.pos = p THEN Hang
        ELSE character_data_loop(t, i.pos, delimiter))

\* A consume_character_data_until that starts its range anew after every
\* reference: the loop carries the start of the range.
RECURSIVE character_data_loop_from(_, _, _, _)
character_data_loop_from(t, p, delimiter, start_pos) ==
    Then(character_data_iter(t, p, delimiter), LAMBDA i :
        IF i.k = "break" THEN OkRange(p, TextRange(start_pos, p))
        ELSE IF i.k # "continue" THEN i
        ELSE IF i.pos = p THEN Hang
        ELSE character_data_loop_from(t, i.pos, delimiter,
                 IF t[p + 1] = Ch("&") THEN i.pos ELSE start_pos))

consume_character_data_until_split(t, p, delimiter) ==
    character_data_loop_from(t, p, delimiter, p)

consume_character_data_until(t, p, delimiter) ==
    Try(character_data_loop(t, p, delimiter), LAMBDA l :
        OkRange(l.pos, TextRange(p, l.pos)))

\* the first skip_spaces' Result is dropped
\* An expect_eq that takes the `=` only where the cursor is.
expect_eq_no_spaces(t, p) ==
    Try(expect_byte(t, p, Ch("=")), LAMBDA e : Ok(e.pos))

expect_eq(t, p) ==
    Then(skip_spaces(t, p), LAMBDA s1 :
    Try(expect_byte(t, s1.pos, Ch("=")), LAMBDA e :
    Try(skip_spaces(t, e.pos), LAMBDA s2 : Ok(s2.pos))))

\* A consume_quote that takes any byte as the quote.
consume_quote_any_byte(t, p) == next_byte(t, p)

consume_quote(t, p) ==
    Try(next_byte(t, p), LAMBDA q :
        IF ~is_xml_quote(q.b)
        THEN Fail(IllegalToken(error_slice(q.pos - 1, q.pos)), q.pos)
        ELSE q)


(***************************************************************************)
(* tokenize.rs: markup.                                                     *)
(***************************************************************************)
tokenize_attribute(t, p) ==
    Try(consume_name(t, p), LAMBDA n :
    Try(expect_eq(t, n.pos), LAMBDA eq :
    Try(consume_quote(t, eq.pos), LAMBDA q :
    Try(consume_character_data_until(t, q.pos, q.b), LAMBDA v :
    Try(advance_n(t, v.pos, 1), LAMBDA a :
        OkTokens(a.pos, <<Attribute(n.range, v.range)>>))))))

\* A loop that puts each attribute in front of the ones read before it.
RECURSIVE attribute_loop_prepend(_, _, _)
attribute_loop_prepend(t, p, toks) ==
    IF test_after_spaces(t, p, EmptyTagEnd) \/ test_after_spaces(t, p, TagEnd)
    THEN OkTokens(p, toks)
    ELSE Try(expect_spaces(t, p), LAMBDA sp :
         Try(tokenize_attribute(t, sp.pos), LAMBDA a :
             attribute_loop_prepend(t, a.pos, a.tokens \o toks)))

RECURSIVE attribute_loop(_, _, _)
attribute_loop(t, p, toks) ==
    IF test_after_spaces(t, p, EmptyTagEnd) \/ test_after_spaces(t, p, TagEnd)
    THEN OkTokens(p, toks)
    ELSE Try(expect_spaces(t, p), LAMBDA sp :
         Try(tokenize_attribute(t, sp.pos), LAMBDA a :
             attribute_loop(t, a.pos, toks \o a.tokens)))

\* tokenize_start_tag without the artificial end tag of an empty-element tag
tokenize_start_tag_no_end_tag(t, p) ==
    Then(skip_over(t, p, TagStart), LAMBDA lt :
    Try(consume_name(t, lt.pos), LAMBDA n :
    Try(attribute_loop(t, n.pos, <<>>), LAMBDA attrs :
    Try(skip_spaces(t, attrs.pos), LAMBDA sp :
    Try(IF test(t, sp.pos, EmptyTagEnd) THEN expect_bytes(t, sp.pos, EmptyTagEnd)
        ELSE expect_byte(t, sp.pos, Ch(">")), LAMBDA close :
        OkTokens(close.pos, <<StartTag(n.range)>> \o attrs.tokens))))))

\* skip_over's Result is dropped: the cursor is on `<`
tokenize_start_tag(t, p) ==
    Then(skip_over(t, p, TagStart), LAMBDA lt :
    Try(consume_name(t, lt.pos), LAMBDA n :
    Try(attribute_loop(t, n.pos, <<>>), LAMBDA attrs :
    Try(skip_spaces(t, attrs.pos), LAMBDA sp :
    Then(test(t, sp.pos, EmptyTagEnd), LAMBDA is_empty_element_tag :
    Try(IF is_empty_element_tag THEN expect_bytes(t, sp.pos, EmptyTagEnd)
        ELSE expect_byte(t, sp.pos, Ch(">")), LAMBDA close :
        OkTokens(close.pos,
            <<StartTag(n.range)>> \o attrs.tokens
            \o (IF is_empty_element_tag THEN <<EndTag(n.range)>> ELSE <<>>))))))))

\* A tokenize_end_tag that wants the `>` right after the name.
tokenize_end_tag_no_spaces(t, p) ==
    Then(skip_over(t, p, EndTagStart), LAMBDA lt :
    Try(consume_name(t, lt.pos), LAMBDA n :
    Try(expect_byte(t, n.pos, Ch(">")), LAMBDA close :
        OkTokens(close.pos, <<EndTag(n.range)>>))))

tokenize_end_tag(t, p) ==
    Then(skip_over(t, p, EndTagStart), LAMBDA lt :
    Try(consume_name(t, lt.pos), LAMBDA n :
    Try(skip_spaces(t, n.pos), LAMBDA sp :
    Try(expect_byte(t, sp.pos, Ch(">")), LAMBDA gt :
        OkTokens(gt.pos, <<EndTag(n.range)>>)))))

tokenize_cdata_section(t, p) ==
    Then(skip_over(t, p, CdataStart), LAMBDA s :
    Try(consume_xml_chars_until(t, s.pos, CdataEnd), LAMBDA v :
    Then(skip_over(t, v.pos, CdataEnd), LAMBDA e :
        OkTokens(e.pos, <<CdataSection(v.range)>>))))

\* A comment loop that stops at any `--`, whatever follows it.
RECURSIVE comment_loop_any_hyphens(_, _)
comment_loop_any_hyphens(t, p) ==
    IF test(t, p, DoubleHyphen) THEN Ok(p)
    ELSE Try(next_xml_char(t, p), LAMBDA c : comment_loop_any_hyphens(t, c.pos))

RECURSIVE comment_loop(_, _)
comment_loop(t, p) ==
    IF test(t, p, DoubleHyphen)
    THEN IF test(t, p, CommentEnd) THEN Ok(p)
         ELSE IF test(t, p, HyphenCommentEnd)
              THEN Fail(IllegalToken(error_slice(p, p + 1)), p)
         ELSE Fail(IllegalToken(error_slice(p, p + 2)), p)
    ELSE Try(next_xml_char(t, p), LAMBDA c : comment_loop(t, c.pos))

tokenize_comment(t, p) ==
    Then(skip_over(t, p, CommentStart), LAMBDA s :
    Try(comment_loop(t, s.pos), LAMBDA l :
    Then(skip_over(t, l.pos, CommentEnd), LAMBDA e :
        OkTokens(e.pos, <<Comment(TextRange(s.pos, l.pos))>>))))

tokenize_processing_instruction(t, p) ==
    Then(skip_over(t, p, PIStart), LAMBDA s :
    Try(consume_name(t, s.pos), LAMBDA n :
    Try(skip_spaces(t, n.pos), LAMBDA sp :
    Try(IF ~test(t, sp.pos, PIEnd)
        THEN Try(consume_xml_chars_until(t, sp.pos, PIEnd), LAMBDA v :
                 [k |-> "ok", pos |-> v.pos, opt |-> Some(v.range)])
        ELSE [k |-> "ok", pos |-> sp.pos, opt |-> None], LAMBDA value :
    Then(skip_over(t, value.pos, PIEnd), LAMBDA e :
        OkTokens(e.pos, <<ProcessingInstruction(n.range, value.opt)>>))))))

\* An iteration that pushes the Text token whether or not it is empty.
tokenize_content_iter_any_text(t, p) ==
    Try(consume_character_data_until(t, p, Ch("<")), LAMBDA text_range :
    Try(IF test(t, text_range.pos, EndTagStart) THEN tokenize_end_tag(t, text_range.pos)
        ELSE IF test(t, text_range.pos, CommentStart) THEN tokenize_comment(t, text_range.pos)
        ELSE IF test(t, text_range.pos, CdataStart)
             THEN tokenize_cdata_section(t, text_range.pos)
        ELSE IF test(t, text_range.pos, PIStart)
             THEN tokenize_processing_instruction(t, text_range.pos)
        ELSE tokenize_start_tag(t, text_range.pos), LAMBDA m :
        OkTokens(m.pos, <<Text(text_range.range)>> \o m.tokens)))

\* One iteration of the loop of tokenize_content.
tokenize_content_iter(t, p) ==
    Try(consume_character_data_until(t, p, Ch("<")), LAMBDA text_range :
    Try(IF test(t, text_range.pos, EndTagStart) THEN tokenize_end_tag(t, text_range.pos)
        ELSE IF test(t, text_range.pos, CommentStart) THEN tokenize_comment(t, text_range.pos)
        ELSE IF test(t, text_range.pos, CdataStart)
             THEN tokenize_cdata_section(t, text_range.pos)
        ELSE IF test(t, text_range.pos, PIStart)
             THEN tokenize_processing_instruction(t, text_range.pos)
        ELSE tokenize_start_tag(t, text_range.pos), LAMBDA m :
        OkTokens(m.pos,
            (IF ~is_empty(text_range.range) THEN <<Text(text_range.range)>> ELSE <<>>)
            \o m.tokens)))

RECURSIVE content_loop(_, _, _)
content_loop(t, p, toks) ==
    IF ~has_next(t, p) THEN OkTokens(p, toks)
    ELSE Try(tokenize_content_iter(t, p), LAMBDA i :
             content_loop(t, i.pos, toks \o i.tokens))

tokenize_content(t, p) == content_loop(t, p, <<>>)


(***************************************************************************)
(* tokenize.rs: the prolog.                                                 *)
(***************************************************************************)
RECURSIVE version_digits(_, _)
version_digits(t, p) ==
    Try(peek_xml_char(t, p), LAMBDA c :
        IF is_ascii_digit(c.c) THEN version_digits(t, p + len_utf8(c.c)) ELSE Ok(p))

consume_version_num(t, p) ==
    Try(expect_bytes(t, p, Str(<<"1", ".">>)), LAMBDA one :
    Try(version_digits(t, one.pos), LAMBDA d :
        OkRange(d.pos, TextRange(p, d.pos))))

consume_version_info(t, p) ==
    Try(expect_spaces(t, p), LAMBDA sp :
    Try(expect_bytes(t, sp.pos, Str(<<"v", "e", "r", "s", "i", "o", "n">>)), LAMBDA kw :
    Try(expect_eq(t, kw.pos), LAMBDA eq :
    Try(consume_quote(t, eq.pos), LAMBDA q :
    Try(consume_version_num(t, q.pos), LAMBDA r :
    Try(expect_byte(t, r.pos, q.b), LAMBDA c :
        OkRange(c.pos, r.range)))))))

is_encoding_name_byte(b) == is_ascii_alphanumeric(b) \/ b \in {Ch("."), Ch("_"), Ch("-")}

RECURSIVE encoding_name_loop(_, _)
encoding_name_loop(t, p) ==
    Try(peek_byte(t, p), LAMBDA b :
        IF is_encoding_name_byte(b.b) THEN encoding_name_loop(t, p + 1) ELSE Ok(p))

consume_encoding_name(t, p) ==
    Try(next_byte(t, p), LAMBDA b :
        IF ~is_ascii_alphabetic(b.b)
        THEN Fail(IllegalToken(error_slice(p, b.pos)), b.pos)
        ELSE Try(encoding_name_loop(t, b.pos), LAMBDA l :
                 OkRange(l.pos, TextRange(p, l.pos))))

Encoding == Str(<<"e", "n", "c", "o", "d", "i", "n", "g">>)

consume_encoding_declaration(t, p) ==
    Try(expect_spaces(t, p), LAMBDA sp :
    Try(expect_bytes(t, sp.pos, Encoding), LAMBDA kw :
    Try(expect_eq(t, kw.pos), LAMBDA eq :
    Try(consume_quote(t, eq.pos), LAMBDA q :
    Try(consume_encoding_name(t, q.pos), LAMBDA r :
    Try(expect_byte(t, r.pos, q.b), LAMBDA c :
        OkRange(c.pos, r.range)))))))

Standalone == Str(<<"s", "t", "a", "n", "d", "a", "l", "o", "n", "e">>)

Yes == Str(<<"y", "e", "s">>)

No == Str(<<"n", "o">>)

consume_standalone_document_declaration(t, p) ==
    Try(expect_spaces(t, p), LAMBDA sp :
    Try(expect_bytes(t, sp.pos, Standalone), LAMBDA kw :
    Try(expect_eq(t, kw.pos), LAMBDA eq :
    Try(consume_quote(t, eq.pos), LAMBDA q :
    Try(IF test(t, q.pos, Yes) THEN Ok(q.pos + Len(Yes))
        ELSE IF test(t, q.pos, No) THEN Ok(q.pos + Len(No))
        ELSE Fail(IllegalToken(error_slice(q.pos, q.pos + 3)), q.pos), LAMBDA end_pos :
    Try(expect_byte(t, end_pos.pos, q.b), LAMBDA c :
        OkRange(c.pos, TextRange(q.pos, end_pos.pos))))))))

\* skip_over's Result is dropped: the cursor is on `<?xml`
tokenize_xml_declaration(t, p) ==
    Then(skip_over(t, p, XmlDeclStart), LAMBDA s :
    Try(consume_version_info(t, s.pos), LAMBDA v :
    Try(IF test_after_spaces(t, v.pos, Encoding)
        THEN Try(consume_encoding_declaration(t, v.pos), LAMBDA r :
                 [k |-> "ok", pos |-> r.pos, opt |-> Some(r.range)])
        ELSE [k |-> "ok", pos |-> v.pos, opt |-> None], LAMBDA enc :
    Try(IF test_after_spaces(t, enc.pos, Standalone)
        THEN Try(consume_standalone_document_declaration(t, enc.pos), LAMBDA r :
                 [k |-> "ok", pos |-> r.pos, opt |-> Some(r.range)])
        ELSE [k |-> "ok", pos |-> enc.pos, opt |-> None], LAMBDA sd :
    Try(skip_spaces(t, sd.pos), LAMBDA sp :
    Try(expect_bytes(t, sp.pos, PIEnd), LAMBDA e :
        OkTokens(e.pos, <<XmlDeclaration(v.range, enc.opt, sd.opt)>>)))))))

\* Ok(None) for a whitespace byte is Ok with no token
tokenize_misc(t, p) ==
    Try(peek_byte(t, p), LAMBDA b :
        IF is_xml_whitespace(b.b) THEN OkTokens(advance_n(t, p, 1).pos, <<>>)
        ELSE IF test(t, p, CommentStart) THEN tokenize_comment(t, p)
        ELSE IF test(t, p, PIStart) THEN tokenize_processing_instruction(t, p)
        ELSE Fail(IllegalToken(error_slice(p, p + 3)), p))

\* the while loops of tokenize_prolog
RECURSIVE misc_loop(_, _, _)
misc_loop(t, p, toks) ==
    Try(peek_byte(t, p), LAMBDA b :
        IF is_xml_whitespace(b.b) \/ test(t, p, CommentStart) \/ test(t, p, PIStart)
        THEN Try(tokenize_misc(t, p), LAMBDA m : misc_loop(t, m.pos, toks \o m.tokens))
        ELSE OkTokens(p, toks))

consume_parameter_entity_reference(t, p) ==
    Try(expect_byte(t, p, Ch("%")), LAMBDA pct :
    Try(consume_name(t, pct.pos), LAMBDA n :
    Try(expect_byte(t, n.pos, Ch(";")), LAMBDA sc :
        OkRange(sc.pos, n.range))))

\* One iteration of the loop of tokenize_internal_subset.  skip_spaces' Result
\* is dropped: at the end of the input the cursor just stays there.
internal_subset_iter(t, p) ==
    IF test_byte(t, p, Ch("]")) THEN [k |-> "break", pos |-> p, tokens |-> <<>>]
    ELSE Then(skip_spaces(t, p), LAMBDA sp :
         IF test_byte(t, sp.pos, Ch("%"))
         THEN Try(consume_parameter_entity_reference(t, sp.pos), LAMBDA pe :
                  [k |-> "continue", pos |-> pe.pos,
                   tokens |-> <<ParameterEntityReference(pe.range)>>])
         ELSE [k |-> "continue", pos |-> sp.pos, tokens |-> <<>>])

\* The loop: an iteration that continues without moving the cursor repeats
\* itself for ever, since the cursor is all the loop reads.
RECURSIVE internal_subset_loop(_, _, _)
internal_subset_loop(t, p, toks) ==
    Then(internal_subset_iter(t, p), LAMBDA i :
        IF i.k = "break" THEN OkTokens(p, toks)
        ELSE IF i.k # "continue" THEN i
        ELSE IF i.pos = p THEN Hang
        ELSE internal_subset_loop(t, i.pos, toks \o i.tokens))

tokenize_internal_subset(t, p) == internal_subset_loop(t, p, <<>>)


\* expect_byte(used_quote)'s Result is dropped: the cursor moves past the byte
\* only when it is the quote.
consume_system_literal(t, p) ==
    Try(consume_quote(t, p), LAMBDA q :
    Try(consume_xml_chars_until(t, q.pos, <<q.b>>), LAMBDA r :
    Then(expect_byte(t, r.pos, q.b), LAMBDA c :
        OkRange(IF c.k = "ok" THEN c.pos ELSE r.pos, r.range))))

RECURSIVE pubid_loop(_, _, _)
pubid_loop(t, p, used_quote) ==
    Try(peek_byte(t, p), LAMBDA b :
        IF is_xml_pubid_char(b.b) /\ b.b # used_quote
        THEN pubid_loop(t, p + 1, used_quote)
        ELSE Ok(p))

consume_pubid_literal(t, p) ==
    Try(consume_quote(t, p), LAMBDA q :
    Try(pubid_loop(t, q.pos, q.b), LAMBDA l :
    Then(expect_byte(t, l.pos, q.b), LAMBDA c :
        OkRange(IF c.k = "ok" THEN c.pos ELSE l.pos, TextRange(q.pos, l.pos)))))

System == Str(<<"S", "Y", "S", "T", "E", "M">>)

Public == Str(<<"P", "U", "B", "L", "I", "C">>)

\* Ok((system, public)): both Options
consume_external_id(t, p) ==
    IF test(t, p, System)
    THEN Try(skip_over(t, p, System), LAMBDA kw :
         Try(expect_spaces(t, kw.pos), LAMBDA sp :
         Try(consume_system_literal(t, sp.pos), LAMBDA sys :
             [k |-> "ok", pos |-> sys.pos, system |-> Some(sys.range),
              public |-> None])))
    ELSE IF test(t, p, Public)
    THEN Try(skip_over(t, p, Public), LAMBDA kw :
         Try(expect_spaces(t, kw.pos), LAMBDA sp :
         Try(consume_pubid_literal(t, sp.pos), LAMBDA pub :
         Try(expect_spaces(t, pub.pos), LAMBDA sp2 :
         Try(consume_system_literal(t, sp2.pos), LAMBDA sys :
             [k |-> "ok", pos |-> sys.pos, system |-> Some(sys.range),
              public |-> Some(pub.range)])))))
    ELSE Fail(IllegalToken(error_slice(p, p + 6)), p)

\* the skip_spaces' Results are dropped
tokenize_doctype_declaration(t, p) ==
    Try(expect_bytes(t, p, DoctypeStart), LAMBDA kw :
    Try(expect_spaces(t, kw.pos), LAMBDA sp :
    Try(consume_name(t, sp.pos), LAMBDA n :
    Try(IF test_after_spaces(t, n.pos, Public) \/ test_after_spaces(t, n.pos, System)
        THEN Try(expect_spaces(t, n.pos), LAMBDA sp2 :
                 consume_external_id(t, sp2.pos))
        ELSE [k |-> "ok", pos |-> n.pos, system |-> None, public |-> None], LAMBDA id :
    Then(skip_spaces(t, id.pos), LAMBDA sp3 :
    Try(IF test_byte(t, sp3.pos, Ch("["))
        THEN Try(advance_n(t, sp3.pos, 1), LAMBDA open :
             Try(tokenize_internal_subset(t, open.pos), LAMBDA sub :
             Try(expect_byte(t, sub.pos, Ch("]")), LAMBDA shut :
                 OkTokens(shut.pos, sub.tokens))))
        ELSE OkTokens(sp3.pos, <<>>), LAMBDA subset :
    Then(skip_spaces(t, subset.pos), LAMBDA sp4 :
    Try(expect_byte(t, sp4.pos, Ch(">")), LAMBDA gt :
        OkTokens(gt.pos,
            <<DocTypeDeclaration(n.range, id.system, id.public)>>
            \o subset.tokens)))))))))

\* A prolog that takes document type declarations as long as they come.
RECURSIVE doctype_loop(_, _, _)
doctype_loop(t, p, toks) ==
    IF ~test(t, p, DoctypeStart) THEN OkTokens(p, toks)
    ELSE Try(tokenize_doctype_declaration(t, p), LAMBDA dt :
         Try(misc_loop(t, dt.pos, toks \o dt.tokens), LAMBDA m :
             doctype_loop(t, m.pos, m.tokens)))

tokenize_prolog_any_doctypes(t, p) ==
    Try(IF test(t, p, XmlDeclStart) THEN tokenize_xml_declaration(t, p)
        ELSE OkTokens(p, <<>>), LAMBDA decl :
    Try(misc_loop(t, decl.pos, decl.tokens), LAMBDA m1 :
        doctype_loop(t, m1.pos, m1.tokens)))

tokenize_prolog(t, p) ==
    Try(IF test(t, p, XmlDeclStart) THEN tokenize_xml_declaration(t, p)
        ELSE OkTokens(p, <<>>), LAMBDA decl :
    Try(misc_loop(t, decl.pos, decl.tokens), LAMBDA m1 :
        IF ~test(t, m1.pos, DoctypeStart) THEN m1
        ELSE Try(tokenize_doctype_declaration(t, m1.pos), LAMBDA dt :
                 misc_loop(t, dt.pos, m1.tokens \o dt.tokens))))

\* tokenize_document, called by tokenize with the cursor at 0
tokenize_document(t) ==
    Try(tokenize_prolog(t, 0), LAMBDA pro :
    Try(tokenize_content(t, pro.pos), LAMBDA con :
        OkTokens(con.pos, pro.tokens \o con.tokens)))

tokenize(xml) == tokenize_document(xml)

(***************************************************************************)
(* parse.rs: the tree builder.  It reads flat tokens {token_type, content}: *)
(* an attribute is an AttributeKey token followed by its value token, a     *)
(* processing instruction a PITarget token optionally followed by a PIData  *)
(* token.  Flatten lays the tokenizer's tokens out that way.                *)
(***************************************************************************)
FlatToken(ty, r) == [token_type |-> ty, content |-> r]

FlattenOne(tok) ==
    IF tok.type = "Attribute"
    THEN <<FlatToken("AttributeKey", tok.name_range),
           FlatToken("AttributeValue", tok.value_range)>>
    ELSE IF tok.type = "ProcessingInstruction"
    THEN <<FlatToken("PITarget", tok.target_range)>>
         \o (IF tok.opt_value_range # None
             THEN <<FlatToken("PIData", tok.opt_value_range[1])>> ELSE <<>>)
    ELSE IF tok.type = "XmlDeclaration"
    THEN <<FlatToken("XmlDeclaration", tok.version_range)>>
    ELSE IF tok.type = "DocTypeDeclaration"
    THEN <<FlatToken("DocTypeDeclaration", tok.name_range)>>
    ELSE <<FlatToken(tok.type, tok.range)>>

RECURSIVE Flatten(_)
Flatten(toks) ==
    IF toks = <<>> THEN <<>> ELSE FlattenOne(Head(toks)) \o Flatten(Tail(toks))

\* XmlNode::create_*
create_text(xml, content) ==
    [node_type |-> "Text", key |-> None, value |-> Some(slice(xml, content)),
     children |-> None]

create_element(xml, name, children) ==
    [node_type |-> "Element", key |-> Some(slice(xml, name)), value |-> None,
     children |-> Some(children)]

create_attribute(xml, key, value) ==
    [node_type |-> "Attribute", key |-> Some(slice(xml, key)),
     value |-> Some(slice(xml, value)), children |-> None]

create_cdata_section(xml, content) ==
    [node_type |-> "CdataSection", key |-> None, value |-> Some(slice(xml, content)),
     children |-> None]

create_comment(xml, content) ==
    [node_type |-> "Comment", key |-> None, value |-> Some(slice(xml, content)),
     children |-> None]

create_processing_instruction(xml, target, data) ==
    [node_type |-> "ProcessingInstruction", key |-> Some(slice(xml, target)),
     value |-> IF data = None THEN None ELSE Some(slice(xml, data[1])),
     children |-> None]

\* tokens[pos] with pos 0-based panics when pos >= tokens.len()
InBounds(tokens, pos) == pos < Len(tokens)

OkNodes(p, ns) == [k |-> "ok", pos |-> p, nodes |-> ns]

\* the while loop of parse_element that collects the attributes
RECURSIVE element_attributes(_, _, _, _)
element_attributes(xml, tokens, pos, children) ==
    IF ~InBounds(tokens, pos) THEN Panic
    ELSE IF tokens[pos + 1].token_type # "AttributeKey" THEN OkNodes(pos, children)
    ELSE IF ~InBounds(tokens, pos + 1) THEN Panic
    ELSE element_attributes(xml, tokens, pos + 2,
             Append(children,
                 create_attribute(xml, tokens[pos + 1].content, tokens[pos + 2].content)))

RECURSIVE parse_element(_, _, _)
RECURSIVE parse_element_content(_, _, _, _)
\* A parse_element that appends the attributes after the content.
parse_element_content_first(xml, tokens, pos) ==
    IF ~InBounds(tokens, pos) THEN Panic
    ELSE Try(element_attributes(xml, tokens, pos + 1, <<>>), LAMBDA attrs :
         Try(parse_element_content(xml, tokens, attrs.pos, <<>>), LAMBDA inner :
              IF ~InBounds(tokens, inner.pos) THEN Panic
              ELSE [k |-> "ok", pos |-> inner.pos + 1,
                    node |-> create_element(xml, tokens[pos + 1].content,
                                 inner.nodes \o attrs.nodes)]))

parse_element(xml, tokens, pos) ==
    IF ~InBounds(tokens, pos) THEN Panic
    ELSE Try(element_attributes(xml, tokens, pos + 1, <<>>), LAMBDA attrs :
         IF tokens[pos + 1].token_type = "EmptyElementTag"
         THEN [k |-> "ok", pos |-> attrs.pos,
               node |-> create_element(xml, tokens[pos + 1].content, attrs.nodes)]
         ELSE Try(parse_element_content(xml, tokens, attrs.pos, <<>>), LAMBDA inner :
              \* end_tag = &tokens[pos]; pos += 1: read, never compared
              IF ~InBounds(tokens, inner.pos) THEN Panic
              ELSE [k |-> "ok", pos |-> inner.pos + 1,
                    node |-> create_element(xml, tokens[pos + 1].content,
                                 attrs.nodes \o inner.nodes)]))

parse_element_content(xml, tokens, pos, content) ==
    IF ~(pos < Len(tokens)) THEN OkNodes(pos, content)
    ELSE Then(tokens[pos + 1], LAMBDA token :
         IF token.token_type = "EndTag" THEN OkNodes(pos, content)
         ELSE IF token.token_type \in {"EmptyElementTag", "StartTag"}
              THEN Try(parse_element(xml, tokens, pos), LAMBDA el :
                       parse_element_content(xml, tokens, el.pos,
                           Append(content, el.node)))
         ELSE IF token.token_type = "PITarget"
              THEN IF ~InBounds(tokens, pos + 1) THEN Panic
                   ELSE IF tokens[pos + 2].token_type = "PIData"
                   THEN parse_element_content(xml, tokens, pos + 2,
                            Append(content,
                                create_processing_instruction(xml, token.content,
                                    Some(tokens[pos + 2].content))))
                   ELSE parse_element_content(xml, tokens, pos + 1,
                            Append(content,
                                create_processing_instruction(xml, token.content,
                                    None)))
         ELSE IF token.token_type = "Text"
              THEN parse_element_content(xml, tokens, pos + 1,
                       Append(content, create_text(xml, token.content)))
         ELSE IF token.token_type = "Comment"
              THEN parse_element_content(xml, tokens, pos + 1,
                       Append(content, create_cdata_section(xml, token.content)))
         ELSE IF token.token_type = "CdataSection"
              THEN parse_element_content(xml, tokens, pos + 1,
                       Append(content, create_comment(xml, token.content)))
         ELSE Panic)

parse_document(xml, tokens) == parse_element(xml, tokens, 0)

\* parse: tokenize, then build the tree; a tokenizer error is the result
parse(xml) ==
    Try(tokenize(xml), LAMBDA tk : parse_document(xml, Flatten(tk.tokens)))


(***************************************************************************)
(* The state machine.  One call of XmlParser::parse on the buffer `text`:   *)
(* tokenize's prolog, then one step per iteration of tokenize_content's     *)
(* loop, then the tree builder on the tokens.                               *)
(*   pc      where the call is: "prolog", "content", "tokenized" (tokenize *)
(*           returned Ok), "failed" (tokenize returned Err, panicked or     *)
(*           never returns), "parsed" (parse_document returned)            *)
(*   pos     the cursor                                                     *)
(*   tokens  the tokens pushed so far                                       *)
(*   result  what the call returned, [k |-> "running"] before               *)
(***************************************************************************)
VARIABLES text, pos, pc, tokens, result, iters, delimiter

vars == <<text, pos, pc, tokens, result, iters, delimiter>>

Running == [k |-> "running"]

\* all concatenations of at most n of the fragments F
RECURSIVE Concats(_, _)
Concats(F, n) ==
    IF n = 0 THEN {<<>>}
    ELSE LET shorter == Concats(F, n - 1) IN
         shorter \cup {w \o f : w \in shorter, f \in F}

InitParse(inputs) ==
    /\ text \in inputs
    /\ pos = 0
    /\ pc = "prolog"
    /\ tokens = <<>>
    /\ result = Running
    /\ iters = 0
    /\ delimiter = Ch("<")

TokenizeProlog ==
    /\ pc = "prolog"
    /\ LET r == tokenize_prolog(text, pos) IN
       IF r.k = "ok"
       THEN /\ pc' = "content"
            /\ pos' = r.pos
            /\ tokens' = r.tokens
            /\ result' = result
       ELSE /\ pc' = "failed"
            /\ result' = r
            /\ UNCHANGED <<pos, tokens>>
    /\ UNCHANGED <<text, iters, delimiter>>

TokenizeContentIter ==
    /\ pc = "content"
    /\ has_next(text, pos)
    /\ LET r == tokenize_content_iter(text, pos) IN
       IF r.k = "ok"
       THEN /\ pos' = r.pos
            /\ tokens' = tokens \o r.tokens
            /\ UNCHANGED <<pc, result>>
       ELSE /\ pc' = "failed"
            /\ result' = r
            /\ UNCHANGED <<pos, tokens>>
    /\ UNCHANGED <<text, iters, delimiter>>

TokenizeReturn ==
    /\ pc = "content"
    /\ ~has_next(text, pos)
    /\ pc' = "tokenized"
    /\ UNCHANGED <<text, pos, tokens, result, iters, delimiter>>

ParseDocument ==
    /\ pc = "tokenized"
    /\ result' = parse_document(text, Flatten(tokens))
    /\ pc' = "parsed"
    /\ UNCHANGED <<text, pos, tokens, iters, delimiter>>

Next == TokenizeProlog \/ TokenizeContentIter \/ TokenizeReturn \/ ParseDocument

(***************************************************************************)
(* Inputs: documents of elements, empty-element tags and text.              *)
(***************************************************************************)
MaxElementFrags == 3

ElementFragments ==
    {Str(<<"<", "a", ">">>), Str(<<"<", "/", "a", ">">>), Str(<<"<", "b", ">">>),
     Str(<<"<", "/", "b", ">">>), Str(<<"<", "a", "/", ">">>), Str(<<"x">>),
     Str(<<"<", "b", " ", "k", "=", "'", "v", "'", " ", "j", "=", "\"", "w", "\"", " ", "/", ">">>)}

ElementDocs == Concats(ElementFragments, MaxElementFrags)

Init == InitParse(ElementDocs)

Spec == Init /\ [][Next]_vars


(***************************************************************************)
(* What the claims read off a state: the names and the nesting of the tags  *)
(* in the tokens.                                                           *)
(***************************************************************************)
\* The tags walked with the stack `open` of the StartTags not yet closed
\* (indexes into toks, innermost first): the index of the first EndTag whose
\* name text differs from the name text of the StartTag it closes, 0 if none.
RECURSIVE FirstMismatch(_, _, _)
FirstMismatch(toks, i, open) ==
    IF i > Len(toks) THEN 0
    ELSE IF toks[i].type = "StartTag" THEN FirstMismatch(toks, i + 1, <<i>> \o open)
    ELSE IF toks[i].type = "EndTag"
         THEN IF open = <<>> THEN 0
              ELSE IF slice(text, toks[Head(open)].range) # slice(text, toks[i].range)
                   THEN i
              ELSE FirstMismatch(toks, i + 1, Tail(open))
    ELSE FirstMismatch(toks, i + 1, open)

\* the number of StartTags met at depth 0
RECURSIVE TopLevelElements(_, _, _)
TopLevelElements(toks, i, depth) ==
    IF i > Len(toks) THEN 0
    ELSE IF toks[i].type = "StartTag"
         THEN (IF depth = 0 THEN 1 ELSE 0) + TopLevelElements(toks, i + 1, depth + 1)
    ELSE IF toks[i].type = "EndTag"
         THEN TopLevelElements(toks, i + 1, IF depth > 0 THEN depth - 1 ELSE 0)
    ELSE TopLevelElements(toks, i + 1, depth)

\* C1: when an EndTag closes an open StartTag with another name, parse
\* returns the error NonMatchingTags and never a tree.
C1_NonMatchingTags ==
    (pc = "parsed" /\ FirstMismatch(tokens, 1, <<>>) # 0)
        => (result.k = "err" /\ result.err.kind = "NonMatchingTags")

\* C2: parse succeeds only if the tokens hold exactly one top-level element.
C2_OneTopLevelElement ==
    (pc = "parsed" /\ result.k = "ok") => TopLevelElements(tokens, 1, 0) = 1


\* the index of the first token after the Attribute tokens that start at j
RECURSIVE AfterAttributes(_, _)
AfterAttributes(toks, j) ==
    IF j <= Len(toks) /\ toks[j].type = "Attribute"
    THEN AfterAttributes(toks, j + 1) ELSE j

\* the offset just after the name of the StartTag toks[i], or after the closing
\* quote of its last attribute value
AfterTagBody(toks, i) ==
    IF AfterAttributes(toks, i + 1) = i + 1 THEN toks[i].range.end
    ELSE toks[AfterAttributes(toks, i + 1) - 1].value_range.end + 1

\* the tag of the StartTag toks[i] is closed by `/>` in the buffer
RECURSIVE ClosedAsEmpty(_, _)
ClosedAsEmpty(t, p) ==
    IF p < Len(t) /\ is_xml_whitespace(t[p + 1]) THEN ClosedAsEmpty(t, p + 1)
    ELSE p + 2 <= Len(t) /\ t[p + 1] = Ch("/") /\ t[p + 2] = Ch(">")

IsEmptyElementTag(toks, i) ==
    toks[i].type = "StartTag" /\ ClosedAsEmpty(text, AfterTagBody(toks, i))

\* the Attribute nodes of the Attribute tokens toks[i..j]
AttributeNodes(toks, i, j) ==
    [n \in 1..(j - i + 1) |->
        create_attribute(text, toks[i + n - 1].name_range, toks[i + n - 1].value_range)]

\* C4: an empty-element tag is a StartTag, its Attribute tokens and a
\* synthetic EndTag with the StartTag's range (a tag closed by `>` gets no
\* such EndTag), and the tree builder makes of it an Element whose children
\* are its attributes and nothing else.
C4_EmptyElementTag ==
    \A i \in 1..Len(tokens) :
        tokens[i].type = "StartTag" =>
            IF IsEmptyElementTag(tokens, i)
            THEN /\ AfterAttributes(tokens, i + 1) <= Len(tokens)
                 /\ tokens[AfterAttributes(tokens, i + 1)] = EndTag(tokens[i].range)
                 /\ parse_element(text, Flatten(tokens),
                                  Len(Flatten(SubSeq(tokens, 1, i - 1)))).k = "ok"
                 /\ parse_element(text, Flatten(tokens),
                                  Len(Flatten(SubSeq(tokens, 1, i - 1)))).node
                      = create_element(text, tokens[i].range,
                            AttributeNodes(tokens, i + 1,
                                           AfterAttributes(tokens, i + 1) - 1))
                 /\ (pc = "parsed" /\ i = 1) =>
                      result.node.children
                          = Some(AttributeNodes(tokens, 2, AfterAttributes(tokens, 2) - 1))
            ELSE ~(/\ AfterAttributes(tokens, i + 1) <= Len(tokens)
                   /\ tokens[AfterAttributes(tokens, i + 1)] = EndTag(tokens[i].range))

\* an empty-element tag with attributes, inside an element, went through
\* the tokenizer and the tree builder
C4_Witness ==
    /\ pc = "parsed"
    /\ result.k = "ok"
    /\ tokens[1].type = "StartTag"
    /\ tokens[Len(tokens)].type = "EndTag"
    /\ \E i \in 2..Len(tokens) :
          /\ IsEmptyElementTag(tokens, i)
          /\ AfterAttributes(tokens, i + 1) > i + 1
          /\ \E c \in 1..Len(result.node.children[1]) :
                result.node.children[1][c]
                    = create_element(text, tokens[i].range,
                          AttributeNodes(tokens, i + 1, AfterAttributes(tokens, i + 1) - 1))


(***************************************************************************)
(* The two scanning loops of the tokenizer, one step per iteration.  The    *)
(* loop of consume_character_data_until runs with the cursor in the content *)
(* of an element (delimiter `<`) or in an attribute value (delimiter the    *)
(* quote); the loop of tokenize_internal_subset runs after the `[` of a     *)
(* DOCTYPE.  iters counts the iterations taken.                             *)
(***************************************************************************)
MaxLoopFrags == 3

MaxIters == 5

LoopFragments ==
    {Str(<<"]">>), Str(<<"x">>), Str(<<"<">>), Str(<<"'">>), Str(<<">">>), Str(<<" ">>),
     Str(<<"&", "a", "m", "p", ";">>), Str(<<"%", "e", ";">>)}

ContentPrefix == Str(<<"<", "r", ">">>)

ValuePrefix == Str(<<"<", "r", " ", "k", "=", "'">>)

SubsetPrefix == Str(<<"<", "!", "D", "O", "C", "T", "Y", "P", "E", " ", "r", " ", "[">>)

InitLoops ==
    /\ \E w \in Concats(LoopFragments, MaxLoopFrags) :
          \/ text = ContentPrefix \o w /\ pos = Len(ContentPrefix)
                /\ pc = "chardata" /\ delimiter = Ch("<")
          \/ text = ValuePrefix \o w /\ pos = Len(ValuePrefix)
                /\ pc = "chardata" /\ delimiter = Ch("'")
          \/ text = SubsetPrefix \o w /\ pos = Len(SubsetPrefix)
                /\ pc = "subset" /\ delimiter = Ch("<")
    /\ tokens = <<>>
    /\ result = Running
    /\ iters = 0

\* one iteration of the loop of consume_character_data_until
CharacterDataIter ==
    /\ pc = "chardata"
    /\ iters < MaxIters
    /\ LET i == character_data_iter(text, pos, delimiter) IN
       IF i.k = "continue"
       THEN /\ pos' = i.pos
            /\ iters' = iters + 1
            /\ UNCHANGED <<pc, result>>
       ELSE /\ pc' = "returned"
            /\ result' = IF i.k = "break" THEN Ok(pos) ELSE i
            /\ UNCHANGED <<pos, iters>>
    /\ UNCHANGED <<text, tokens, delimiter>>

\* one iteration of the loop of tokenize_internal_subset
InternalSubsetIter ==
    /\ pc = "subset"
    /\ iters < MaxIters
    /\ LET i == internal_subset_iter(text, pos) IN
       IF i.k = "continue"
       THEN /\ pos' = i.pos
            /\ tokens' = tokens \o i.tokens
            /\ iters' = iters + 1
            /\ UNCHANGED <<pc, result>>
       ELSE /\ pc' = "returned"
            /\ result' = IF i.k = "break" THEN OkTokens(pos, tokens) ELSE i
            /\ UNCHANGED <<pos, tokens, iters>>
    /\ UNCHANGED <<text, delimiter>>

NextLoops == CharacterDataIter \/ InternalSubsetIter

SpecLoops == InitLoops /\ [][NextLoops]_vars

\* C3: every iteration of the loop of consume_character_data_until and of
\* the loop of tokenize_internal_subset leaves the loop (with Ok or an error)
\* or strictly increases the cursor position.
C3_LoopsAdvance ==
    [][(pc \in {"chardata", "subset"}) => (pc' = "returned" \/ pos' > pos)]_vars


(***************************************************************************)
(* Inputs: an element whose content is text and references.                 *)
(***************************************************************************)
MaxRefFrags == 2

RefFragments ==
    {Str(<<"x">>),
     Str(<<"&", "a", "m", "p", ";">>), Str(<<"&", "l", "t", ";">>),
     Str(<<"&", "#", "6", "5", ";">>), Str(<<"&", "#", "x", "4", "1", ";">>),
     Str(<<"&", "u", ";">>), Str(<<"&", "#", ";">>), Str(<<"&", "#", "0", ";">>),
     Str(<<"&", "#", "x", "D", "8", "0", "0", ";">>),
     Str(<<"&", "#", "x", "0", "D", "8", "0", "0", ";">>),
     Str(<<"&", "#", "x", "1", "0", "0", ";">>)}

RootOpen == Str(<<"<", "r", ">">>)

RootClose == Str(<<"<", "/", "r", ">">>)

RefDocs == {RootOpen \o w \o RootClose : w \in Concats(RefFragments, MaxRefFrags)}

InitRefs == InitParse(RefDocs)

SpecRefs == InitRefs /\ [][Next]_vars

\* The number the digits write in the base; a number above 0x10FFFF, which is
\* no code point whatever follows, is kept as it is.
RECURSIVE NumberWritten(_, _, _)
NumberWritten(digits, base, acc) ==
    IF digits = <<>> THEN acc
    ELSE IF acc > 1114111 THEN NumberWritten(Tail(digits), base, acc)
    ELSE NumberWritten(Tail(digits), base, acc * base + HexDigit(Head(digits)))

AllDigits(digits, base) ==
    /\ Len(digits) >= 1
    /\ \A i \in 1..Len(digits) : HexDigit(digits[i]) # -1 /\ HexDigit(digits[i]) < base

\* the body of a reference (between `&` and `;`) is a legal `#x<hex>`, a
\* legal `#<decimal>` or one of the five names
LegalReference(body) ==
    IF Len(body) >= 2 /\ body[1] = Ch("#") /\ body[2] = Ch("x")
    THEN /\ AllDigits(SubSeq(body, 3, Len(body)), 16)
         /\ is_xml_char(NumberWritten(SubSeq(body, 3, Len(body)), 16, 0))
    ELSE IF Len(body) >= 1 /\ body[1] = Ch("#")
    THEN /\ AllDigits(Tail(body), 10)
         /\ is_xml_char(NumberWritten(Tail(body), 10, 0))
    ELSE body \in ShortHands

\* the offset of the first `;` at or after offset p, -1 if there is none
RECURSIVE NextSemicolon(_, _)
NextSemicolon(t, p) ==
    IF p >= Len(t) THEN -1
    ELSE IF t[p + 1] = Ch(";") THEN p
    ELSE NextSemicolon(t, p + 1)

\* the offset of the first `&` at or after offset p whose text up to the next
\* `;` is no legal reference, -1 if there is none
RECURSIVE FirstIllegalReference(_, _)
FirstIllegalReference(t, p) ==
    IF p >= Len(t) THEN -1
    ELSE IF t[p + 1] # Ch("&") THEN FirstIllegalReference(t, p + 1)
    ELSE IF NextSemicolon(t, p) = -1 THEN -1
    ELSE IF ~LegalReference(SubSeq(t, p + 2, NextSemicolon(t, p))) THEN p
    ELSE FirstIllegalReference(t, NextSemicolon(t, p) + 1)

\* C5: character data with an `&` that starts no legal reference fails with
\* UnknownReference, whose range goes from the `&` to just after the `;`, so
\* that get_target is the whole reference text.
C5_UnknownReference ==
    (pc \in {"failed", "parsed"} /\ FirstIllegalReference(text, 0) # -1)
        => /\ result.k = "err"
           /\ result.err.kind = "UnknownReference"
           /\ result.err.start = FirstIllegalReference(text, 0)
           /\ result.err.end = NextSemicolon(text, FirstIllegalReference(text, 0)) + 1
           /\ get_target(text, result.err)
                = SubSeq(text, FirstIllegalReference(text, 0) + 1,
                         NextSemicolon(text, FirstIllegalReference(text, 0)) + 1)

\* C6: a Text token is one whole run of character data, references and all
\* (it starts after the `>` before it and ends at the next `<`), and the
\* content of <r>...</r> comes out as one Text node with the source bytes.
C6_ReferenceKept ==
    /\ \A i \in 1..Len(tokens) :
          tokens[i].type = "Text" =>
              /\ tokens[i].range.start = 0 \/ text[tokens[i].range.start] = Ch(">")
              /\ tokens[i].range.end < Len(text)
              /\ text[tokens[i].range.end + 1] = Ch("<")
    /\ (pc = "parsed" /\ result.k = "ok") =>
          /\ tokens = <<StartTag(TextRange(1, 2))>>
                \o (IF Len(text) = Len(RootOpen) + Len(RootClose) THEN <<>>
                    ELSE <<Text(TextRange(Len(RootOpen), Len(text) - Len(RootClose)))>>)
                \o <<EndTag(TextRange(Len(text) - 2, Len(text) - 1))>>
          /\ result.node.children[1]
                = IF Len(text) = Len(RootOpen) + Len(RootClose) THEN <<>>
                  ELSE <<create_text(text,
                            TextRange(Len(RootOpen), Len(text) - Len(RootClose)))>>

\* a document whose content holds a reference and text was parsed
C6_Witness ==
    /\ pc = "parsed"
    /\ result.k = "ok"
    /\ Len(result.node.children[1]) = 1
    /\ result.node.children[1][1].node_type = "Text"
    /\ \E i, j \in 1..Len(result.node.children[1][1].value[1]) :
          /\ result.node.children[1][1].value[1][i] = Ch("&")
          /\ result.node.children[1][1].value[1][j] = Ch("x")


(***************************************************************************)
(* decode_hex on its own: the text is the argument, the result what it      *)
(* returns.                                                                 *)
(***************************************************************************)
MaxHexLen == 4

HexAlphabet == {Ch("0"), Ch("1"), Ch("4"), Ch("D"), Ch("F"), Ch("g")}

RECURSIVE Repeat(_, _)
Repeat(s, n) == IF n = 0 THEN <<>> ELSE s \o Repeat(s, n - 1)

\* every string over the alphabet up to MaxHexLen, the ends of the range of
\* code points, and strings of up to ten digits
HexStrings ==
    Concats({<<c>> : c \in HexAlphabet}, MaxHexLen)
        \cup {Str(<<"1", "0", "F", "F", "F", "F">>), Str(<<"1", "1", "0", "0", "0", "0">>),
              Str(<<"0", "D", "8", "0", "0">>), Str(<<"F", "F", "F", "F", "F">>),
              Str(<<"+", "A">>), Str(<<"+", "4", "1">>)}
        \cup {Repeat(Str(<<"0">>), n) \o Str(<<"4", "1">>) : n \in 3..8}
        \cup {Repeat(Str(<<"F">>), n) : n \in 5..10}

InitHex ==
    /\ text \in HexStrings
    /\ pos = 0
    /\ pc = "hex"
    /\ tokens = <<>>
    /\ result = Running
    /\ iters = 0
    /\ delimiter = Ch(";")

DecodeHex ==
    /\ pc = "hex"
    /\ result' = decode_hex(text)
    /\ pc' = "decoded"
    /\ UNCHANGED <<text, pos, tokens, iters, delimiter>>

NextHex == DecodeHex

SpecHex == InitHex /\ [][NextHex]_vars

\* C7: decode_hex of one to eight hexadecimal digits is Some(c) exactly when
\* the number they write in base 16 is a legal XML Char, and c is that code
\* point; of anything else it is None.
C7_DecodeHex ==
    pc = "decoded" =>
        IF /\ Len(text) <= 8
           /\ AllDigits(text, 16)
           /\ is_xml_char(NumberWritten(text, 16, 0))
        THEN result = [k |-> "some", c |-> NumberWritten(text, 16, 0)]
        ELSE result.k = "none"


(***************************************************************************)
(* Inputs: an element whose content starts with a comment.                  *)
(***************************************************************************)
MaxCommentFrags == 4

CommentFragments ==
    {Str(<<"-">>), Str(<<">">>), Str(<<"x">>), Str(<<"-", "-", ">">>), RootClose}

CommentOpen == RootOpen \o CommentStart

CommentDocs == {CommentOpen \o w : w \in Concats(CommentFragments, MaxCommentFrags)}

InitComments == InitParse(CommentDocs)

SpecComments == InitComments /\ [][Next]_vars

\* the offset of the first `--` at or after offset p, -1 if there is none
RECURSIVE FirstDoubleHyphen(_, _)
FirstDoubleHyphen(t, p) ==
    IF p + 2 > Len(t) THEN -1
    ELSE IF t[p + 1] = Ch("-") /\ t[p + 2] = Ch("-") THEN p
    ELSE FirstDoubleHyphen(t, p + 1)

ByteAt(t, p) == IF p < Len(t) THEN t[p + 1] ELSE -1

\* C8: the comment ends at the first `--` of its content if a `>` follows
\* it, and any other first `--` is an IllegalToken there; so a Comment
\* token's range has no `--`, does not end with `-` and is followed by `-->`.
C8_CommentDoubleHyphen ==
    /\ \A i \in 1..Len(tokens) :
          tokens[i].type = "Comment" =>
              /\ \A q \in tokens[i].range.start..(tokens[i].range.end - 1) :
                    ~(ByteAt(text, q) = Ch("-") /\ ByteAt(text, q + 1) = Ch("-")
                        /\ q + 1 < tokens[i].range.end)
              /\ tokens[i].range.end > tokens[i].range.start
                    => ByteAt(text, tokens[i].range.end - 1) # Ch("-")
              /\ ByteAt(text, tokens[i].range.end) = Ch("-")
              /\ ByteAt(text, tokens[i].range.end + 1) = Ch("-")
              /\ ByteAt(text, tokens[i].range.end + 2) = Ch(">")
    /\ Len(tokens) >= 2 =>
          /\ FirstDoubleHyphen(text, Len(CommentOpen)) # -1
          /\ ByteAt(text, FirstDoubleHyphen(text, Len(CommentOpen)) + 2) = Ch(">")
          /\ tokens[2] = Comment(TextRange(Len(CommentOpen),
                                           FirstDoubleHyphen(text, Len(CommentOpen))))
    /\ (pc = "failed" /\ Len(tokens) = 1) =>
          IF FirstDoubleHyphen(text, Len(CommentOpen)) = -1
          THEN result.k = "err" /\ result.err.kind = "UnexpectedEndOfFile"
          ELSE /\ ByteAt(text, FirstDoubleHyphen(text, Len(CommentOpen)) + 2) # Ch(">")
               /\ result.k = "err"
               /\ result.err.kind = "IllegalToken"
               /\ result.err.start = FirstDoubleHyphen(text, Len(CommentOpen))

\* a comment with a single hyphen in it was accepted and the document parsed
C8_Witness ==
    /\ pc = "parsed"
    /\ result.k = "ok"
    /\ Len(tokens) >= 2
    /\ tokens[2].type = "Comment"
    /\ \E q \in tokens[2].range.start..(tokens[2].range.end - 1) :
          ByteAt(text, q) = Ch("-")


(***************************************************************************)
(* Inputs: character data as the content of an element and as the value of *)
(* an attribute.                                                            *)
(***************************************************************************)
MaxCharDataFrags == 3

ContentChars == {Str(<<"]">>), Str(<<">">>), Str(<<"x">>)}

ValueChars == ContentChars \cup {Str(<<"<">>)}

ValueOpen == Str(<<"<", "r", " ", "k", "=", "'">>)

ValueClose == Str(<<"'", "/", ">">>)

CharDataDocs ==
    {RootOpen \o w \o RootClose : w \in Concats(ContentChars, MaxCharDataFrags)}
        \cup {ValueOpen \o w \o ValueClose : w \in Concats(ValueChars, MaxCharDataFrags)}

InitCharData == InitParse(CharDataDocs)

SpecCharData == InitCharData /\ [][Next]_vars

InValue == ByteAt(text, 2) = Ch(" ")

\* where the run of character data of the document starts and ends
RunStart == IF InValue THEN Len(ValueOpen) ELSE Len(RootOpen)

RunEnd == IF InValue THEN Len(text) - Len(ValueClose) ELSE Len(text) - Len(RootClose)

\* the first offset in p..(e - 1) where the run is illegal: a `]]>`, or in an
\* attribute value a `<`; -1 if there is none
RECURSIVE FirstIllegalCharData(_, _, _, _)
FirstIllegalCharData(t, p, e, in_value) ==
    IF p >= e THEN -1
    ELSE IF ByteAt(t, p) = Ch("]") /\ ByteAt(t, p + 1) = Ch("]") /\ ByteAt(t, p + 2) = Ch(">")
    THEN p
    ELSE IF in_value /\ ByteAt(t, p) = Ch("<") THEN p
    ELSE FirstIllegalCharData(t, p + 1, e, in_value)

\* C9: a run of character data with `]]>` in it, or in an attribute value
\* with `<` in it, fails with IllegalToken there; any other run, `]` and `]]`
\* included, is consumed whole as the range of the Text token or of the
\* attribute value.
C9_CharData ==
    pc \in {"failed", "parsed"} =>
        IF FirstIllegalCharData(text, RunStart, RunEnd, InValue) # -1
        THEN /\ result.k = "err"
             /\ result.err.kind = "IllegalToken"
             /\ result.err.start = FirstIllegalCharData(text, RunStart, RunEnd, InValue)
        ELSE /\ pc = "parsed"
             /\ InValue => tokens[2] = Attribute(TextRange(3, 4), TextRange(RunStart, RunEnd))
             /\ (~InValue /\ RunEnd > RunStart) => tokens[2] = Text(TextRange(RunStart, RunEnd))


(***************************************************************************)
(* Inputs: a start tag `<r` followed by spaces, attributes and tag ends.    *)
(***************************************************************************)
MaxAttrFrags == 4

AttrFragments ==
    {Str(<<" ">>), Str(<<"a", "=", "'", "1", "'">>), Str(<<"b", "=", "\"", "2", "\"">>),
     Str(<<">">>), Str(<<"/", ">">>)}

TagOpen == Str(<<"<", "r">>)

AttrLen == Len(Str(<<"a", "=", "'", "1", "'">>))

AttrDocs == {TagOpen \o w : w \in Concats(AttrFragments, MaxAttrFrags)}

InitAttrs == InitParse(AttrDocs)

SpecAttrs == InitAttrs /\ [][Next]_vars

NoFault == [at |-> -1, after |-> "none"]

\* The first attribute of the first tag that no space precedes: the offset
\* of its name and what it follows ("name": the tag name, "quote": the
\* closing quote of the attribute before it).  p is the offset read, after
\* what the byte before it was.
RECURSIVE MissingSpace(_, _, _)
MissingSpace(t, p, after) ==
    IF p >= Len(t) \/ ByteAt(t, p) = Ch(">") \/ ByteAt(t, p) = Ch("/") THEN NoFault
    ELSE IF ByteAt(t, p) = Ch(" ") THEN MissingSpace(t, p + 1, "space")
    ELSE IF after = "space" THEN MissingSpace(t, p + AttrLen, "quote")
    ELSE [at |-> p, after |-> after]

FirstMissingSpace == MissingSpace(text, Len(TagOpen), "name")

\* the first tag was read: it failed or its tokens are there
FirstTagDone == (pc = "failed" /\ tokens = <<>>) \/ Len(tokens) > 0

FailsWithIllegalTokenAt(p) ==
    /\ pc = "failed"
    /\ tokens = <<>>
    /\ result.k = "err"
    /\ result.err.kind = "IllegalToken"
    /\ result.err.start = p

\* the offset of the first byte at or after p that is no name character
RECURSIVE NameEnd(_, _)
NameEnd(t, p) ==
    IF p < Len(t) /\ is_xml_name_char(ByteAt(t, p)) THEN NameEnd(t, p + 1) ELSE p

\* C10 as stated: an attribute name that directly follows the tag name or a
\* closing quote makes tokenize fail with IllegalToken at the first byte of
\* that attribute name.
C10_MissingSpaceAtName ==
    (FirstTagDone /\ FirstMissingSpace.at # -1)
        => FailsWithIllegalTokenAt(FirstMissingSpace.at)

\* C10 amended: an attribute name that directly follows a closing quote
\* makes tokenize fail with IllegalToken at the first byte of that name; a
\* name written directly after the tag name is read as part of the tag name,
\* and tokenize fails with IllegalToken at the byte after it, the `=`.
C10_MissingSpace ==
    (FirstTagDone /\ FirstMissingSpace.at # -1)
        => IF FirstMissingSpace.after = "quote"
           THEN FailsWithIllegalTokenAt(FirstMissingSpace.at)
           ELSE /\ FailsWithIllegalTokenAt(NameEnd(text, FirstMissingSpace.at))
                /\ ByteAt(text, NameEnd(text, FirstMissingSpace.at)) = Ch("=")

\* a tag with an attribute directly after a closing quote failed at the name
C10_Witness ==
    /\ FirstMissingSpace.after = "quote"
    /\ FailsWithIllegalTokenAt(FirstMissingSpace.at)
    /\ ByteAt(text, FirstMissingSpace.at) \in {Ch("a"), Ch("b")}
    /\ ByteAt(text, FirstMissingSpace.at - 1) \in {Ch("'"), Ch("\"")}


(***************************************************************************)
(* Inputs: one attribute k, with whitespace around its `=` and a value v    *)
(* between two bytes q: a quote, or a byte that is none.                    *)
(***************************************************************************)
MaxEqSpaces == 2

Spaces == {Str(<<" ">>), Str(<<"\n">>), Str(<<"\t">>)}

Openers == {Str(<<"'">>), Str(<<"\"">>), Str(<<"x">>)}

AttrNameOpen == Str(<<"<", "r", " ", "k">>)

EqDocs ==
    {AttrNameOpen \o ws1 \o Str(<<"=">>) \o ws2 \o q \o Str(<<"v">>) \o q \o EmptyTagEnd :
        ws1 \in Concats(Spaces, MaxEqSpaces), ws2 \in Concats(Spaces, MaxEqSpaces),
        q \in Openers}

InitEq == InitParse(EqDocs)

SpecEq == InitEq /\ [][Next]_vars

\* the first offset at or after p that holds no whitespace
RECURSIVE AfterSpaces(_, _)
AfterSpaces(t, p) ==
    IF ByteAt(t, p) \in {Ch(" "), Ch("\n"), Ch("\t"), Ch("\r")}
    THEN AfterSpaces(t, p + 1) ELSE p

\* the offsets of the `=` and of the byte q that opens the value
EqAt == AfterSpaces(text, Len(AttrNameOpen))

OpenerAt == AfterSpaces(text, EqAt + 1)

MaxQuoteFrags == 4

QuoteFragments == {Str(<<"'">>), Str(<<"\"">>), Str(<<"v">>), Utf8(233)}

AttrEqOpen == AttrNameOpen \o Str(<<"=">>)

QuoteDocs ==
    {AttrEqOpen \o w \o EmptyTagEnd : w \in Concats(QuoteFragments, MaxQuoteFrags)}

InitQuotes == InitParse(QuoteDocs)

SpecQuotes == InitQuotes /\ [][Next]_vars

\* the first offset at or after p that holds the byte b, -1 if there is none
RECURSIVE NextByteAt(_, _, _)
NextByteAt(t, p, b) ==
    IF p >= Len(t) THEN -1
    ELSE IF ByteAt(t, p) = b THEN p
    ELSE NextByteAt(t, p + 1, b)

\* the byte after the `=`, and where the value closes if that byte is a quote
ValueOpener == ByteAt(text, Len(AttrEqOpen))

ValueCloseAt == NextByteAt(text, Len(AttrEqOpen) + 1, ValueOpener)

MaxNameLen == 3

NameFragments ==
    {Str(<<"a">>), Str(<<"-">>), Str(<<"$">>), Utf8(233), Utf8(183), Utf8(184)}

AttrOpen == Str(<<"<", "r", " ">>)

AttrValueTail == Str(<<"=", "'", "1", "'", "/", ">">>)

NameDocs ==
    {TagStart \o w \o TagEnd : w \in Concats(NameFragments, MaxNameLen)}
        \cup {AttrOpen \o w \o AttrValueTail : w \in Concats(NameFragments, MaxNameLen)}

InitNames == InitParse(NameDocs)

SpecNames == InitNames /\ [][Next]_vars

\* the name under test is the attribute's, not the element's
IsAttrDoc == Len(text) >= Len(AttrOpen) /\ SubSeq(text, 1, Len(AttrOpen)) = AttrOpen

NameAt == IF IsAttrDoc THEN Len(AttrOpen) ELSE Len(TagStart)

\* the end of the longest run of name characters from offset p
RECURSIVE NameCharsEnd(_, _)
NameCharsEnd(t, p) ==
    IF p < Len(t) /\ CharAt(t, p) # -1 /\ is_xml_name_char(CharAt(t, p))
    THEN NameCharsEnd(t, p + len_utf8(CharAt(t, p)))
    ELSE p

MaxTagSpaces == 2

TagSpaces == {Str(<<" ">>), Str(<<"\n">>)}

\* whitespace before a name: none or one
LeadSpaces == {<<>>} \cup TagSpaces

OneAttribute == Str(<<" ", "k", "=", "'", "v", "'">>)

TagName == Str(<<"r">>)

TagSpaceDocs ==
    {TagStart \o s1 \o TagName \o a \o s2 \o EmptyTagEnd :
        s1 \in LeadSpaces, a \in {<<>>, OneAttribute},
        s2 \in Concats(TagSpaces, MaxTagSpaces)}
    \cup
    {TagStart \o s1 \o TagName \o a \o s2 \o TagEnd \o EndTagStart \o s3 \o TagName
        \o s4 \o TagEnd :
        s1 \in LeadSpaces, a \in {<<>>, OneAttribute}, s3 \in LeadSpaces,
        s2 \in Concats(TagSpaces, MaxTagSpaces), s4 \in Concats(TagSpaces, MaxTagSpaces)}

InitTagSpaces == InitParse(TagSpaceDocs)

SpecTagSpaces == InitTagSpaces /\ [][Next]_vars

\* the same document with no whitespace at its tag boundaries
PlainDoc ==
    TagStart \o TagName
        \o (IF NextByteAt(text, 0, Ch("=")) # -1 THEN OneAttribute ELSE <<>>)
        \o (IF ByteAt(text, Len(text) - 2) = Ch("/") THEN EmptyTagEnd
            ELSE TagEnd \o EndTagStart \o TagName \o TagEnd)

\* where the end tag starts, -1 in an empty-element tag
EndTagAt == NextByteAt(text, 1, Ch("<"))

\* whitespace stands between `<` and the start tag's name, or between `</`
\* and the end tag's name
SpaceAfterTagStart == is_xml_whitespace(ByteAt(text, 1))

SpaceAfterEndTagStart == EndTagAt # -1 /\ is_xml_whitespace(ByteAt(text, EndTagAt + 2))

\* C15: whitespace before the `>` or `/>` of a start tag and before the `>` of
\* an end tag leaves the tree what it is without the whitespace; whitespace
\* after `<` or `</` is an IllegalToken on that whitespace character.
C15_TagSpaces ==
    pc \in {"failed", "parsed"} =>
        IF SpaceAfterTagStart
        THEN /\ FailsWithIllegalTokenAt(1)
             /\ result.err.end = 2
        ELSE IF SpaceAfterEndTagStart
        THEN /\ pc = "failed"
             /\ result.k = "err"
             /\ result.err.kind = "IllegalToken"
             /\ result.err.start = EndTagAt + 2
             /\ result.err.end = EndTagAt + 3
        ELSE /\ pc = "parsed"
             /\ result.k = "ok"
             /\ result.node.key = Some(TagName)
             /\ result.node = parse(PlainDoc).node

\* a document with whitespace before `>` in its start tag and in its end tag
\* was parsed
C15_Witness ==
    /\ pc = "parsed"
    /\ result.k = "ok"
    /\ EndTagAt # -1
    /\ is_xml_whitespace(ByteAt(text, EndTagAt - 2))
    /\ is_xml_whitespace(ByteAt(text, Len(text) - 2))
    /\ Len(result.node.children[1]) = 1


(***************************************************************************)
(* Inputs: an element r with an attribute, whose content is made of start   *)
(* tags with attributes, end tags, empty-element tags, text, comments,      *)
(* CDATA sections and processing instructions.                              *)
(***************************************************************************)
MaxTreeFrags == 3

TreeFragments ==
    {Str(<<"<", "a", " ", "k", "=", "'", "1", "'", " ", "j", "=", "'", "2", "'", ">">>),
     Str(<<"<", "/", "a", ">">>),
     Str(<<"<", "b", "/", ">">>),
     Str(<<"x">>),
     Str(<<"<", "!", "-", "-", "c", "-", "-", ">">>),
     Str(<<"<", "!", "[", "C", "D", "A", "T", "A", "[", "d", "]", "]", ">">>),
     Str(<<"<", "?", "p", " ", "q", "?", ">">>),
     Str(<<"<", "?", "p", "?", ">">>)}

TreeOpen == Str(<<"<", "r", " ", "i", "=", "'", "0", "'", ">">>)

TreeDocs == {TreeOpen \o w \o RootClose : w \in Concats(TreeFragments, MaxTreeFrags)}

InitTree == InitParse(TreeDocs)

SpecTree == InitTree /\ [][Next]_vars

\* A tree written out in document order: an Element is its start, its
\* children and its end; an attribute its key and value; any other node its
\* text (the target for a processing instruction).
RECURSIVE SerializeNode(_)
RECURSIVE SerializeNodes(_)
SerializeNode(n) ==
    IF n.node_type = "Element"
    THEN <<[s |-> "start", v |-> n.key[1]]>> \o SerializeNodes(n.children[1])
            \o <<[s |-> "end", v |-> <<>>]>>
    ELSE IF n.node_type = "Attribute" THEN <<[s |-> "attr", v |-> n.key[1] \o n.value[1]]>>
    ELSE IF n.node_type = "ProcessingInstruction" THEN <<[s |-> "leaf", v |-> n.key[1]]>>
    ELSE <<[s |-> "leaf", v |-> n.value[1]]>>

SerializeNodes(ns) ==
    IF ns = <<>> THEN <<>> ELSE SerializeNode(Head(ns)) \o SerializeNodes(Tail(ns))

\* the tokens written out the same way
SerializeToken(t, tok) ==
    IF tok.type = "StartTag" THEN [s |-> "start", v |-> slice(t, tok.range)]
    ELSE IF tok.type = "EndTag" THEN [s |-> "end", v |-> <<>>]
    ELSE IF tok.type = "Attribute"
    THEN [s |-> "attr", v |-> slice(t, tok.name_range) \o slice(t, tok.value_range)]
    ELSE IF tok.type = "ProcessingInstruction"
    THEN [s |-> "leaf", v |-> slice(t, tok.target_range)]
    ELSE [s |-> "leaf", v |-> slice(t, tok.range)]

IsPrefix(a, b) == Len(a) <= Len(b) /\ a = SubSeq(b, 1, Len(a))

\* in every Element of the tree the Attribute children come first
RECURSIVE AttributesFirst(_)
AttributesFirst(n) ==
    n.node_type = "Element" =>
        /\ \A i, j \in 1..Len(n.children[1]) :
              (i < j /\ n.children[1][j].node_type = "Attribute")
                  => n.children[1][i].node_type = "Attribute"
        /\ \A i \in 1..Len(n.children[1]) : AttributesFirst(n.children[1][i])

\* C16: in the tree parse returns, every Element has its attributes first
\* and in source order, then its other children in document order, nested
\* as the start and end tags are: written out in document order the tree is
\* the tokens it was built from.
C16_ChildrenOrder ==
    (pc = "parsed" /\ result.k = "ok")
        => /\ AttributesFirst(result.node)
           /\ IsPrefix(SerializeNode(result.node),
                       [i \in 1..Len(tokens) |-> SerializeToken(text, tokens[i])])

\* an element with two attributes and a content, nested in the root after
\* the root's attribute, was parsed
C16_Witness ==
    /\ pc = "parsed"
    /\ result.k = "ok"
    /\ Len(result.node.children[1]) = 2
    /\ result.node.children[1][1].node_type = "Attribute"
    /\ result.node.children[1][2].node_type = "Element"
    /\ Len(result.node.children[1][2].children[1]) = 3
    /\ result.node.children[1][2].children[1][2].node_type = "Attribute"
    /\ result.node.children[1][2].children[1][3].node_type # "Attribute"

\* the nodes of a tree that are no Element and no Attribute, in document order
RECURSIVE ContentNodes(_)
RECURSIVE ContentNodesOf(_)
ContentNodes(n) ==
    IF n.node_type = "Element" THEN ContentNodesOf(n.children[1])
    ELSE IF n.node_type = "Attribute" THEN <<>>
    ELSE <<n>>

ContentNodesOf(ns) ==
    IF ns = <<>> THEN <<>> ELSE ContentNodes(Head(ns)) \o ContentNodesOf(Tail(ns))

\* the node of the same kind as a content token
NodeOfSameKind(t, tok) ==
    IF tok.type = "Text" THEN create_text(t, tok.range)
    ELSE IF tok.type = "Comment" THEN create_comment(t, tok.range)
    ELSE IF tok.type = "CdataSection" THEN create_cdata_section(t, tok.range)
    ELSE create_processing_instruction(t, tok.target_range, tok.opt_value_range)

ContentTokens(toks) ==
    SelectSeq(toks, LAMBDA tok :
        tok.type \in {"Text", "Comment", "CdataSection", "ProcessingInstruction"})

\* C17: every content token becomes the node of its own kind, a
\* ProcessingInstruction with the token's target and optional value.
C17_SameKind ==
    (pc = "parsed" /\ result.k = "ok")
        => IsPrefix(ContentNodes(result.node),
                    [i \in 1..Len(ContentTokens(tokens)) |->
                        NodeOfSameKind(text, ContentTokens(tokens)[i])])


\* the index of the first EndTag met with no element open, 0 if there is none
RECURSIVE LoneEndTag(_, _, _)
LoneEndTag(toks, i, depth) ==
    IF i > Len(toks) THEN 0
    ELSE IF toks[i].type = "StartTag" THEN LoneEndTag(toks, i + 1, depth + 1)
    ELSE IF toks[i].type = "EndTag"
         THEN IF depth = 0 THEN i ELSE LoneEndTag(toks, i + 1, depth - 1)
    ELSE LoneEndTag(toks, i + 1, depth)

\* C18: when the first token is no StartTag, or an EndTag stands where no
\* element is open (the tags before it matching), parse returns the error
\* UnexpectedXmlToken: no panic, no tree.
C18_UnexpectedXmlToken ==
    (/\ pc = "parsed"
     /\ tokens # <<>>
     /\ FirstMismatch(tokens, 1, <<>>) = 0
     /\ tokens[1].type # "StartTag" \/ LoneEndTag(tokens, 1, 0) # 0)
        => (result.k = "err" /\ result.err.kind = "UnexpectedXmlToken")


(***************************************************************************)
(* Inputs: documents made of XML declarations, document type declarations, *)
(* comments, spaces, elements and text, in any order.                       *)
(***************************************************************************)
MaxPrologFrags == 3

XmlDecl ==
    Str(<<"<", "?", "x", "m", "l", " ", "v", "e", "r", "s", "i", "o", "n", "=", "'", "1",
          ".", "0", "'", "?", ">">>)

DoctypeDecl == DoctypeStart \o Str(<<" ", "r", ">">>)

CommentC == Str(<<"<", "!", "-", "-", "c", "-", "-", ">">>)

PrologFragments ==
    {XmlDecl, DoctypeDecl, CommentC, Str(<<" ">>), Str(<<"<", "r", "/", ">">>), Str(<<"t">>)}

PrologDocs == Concats(PrologFragments, MaxPrologFrags)

InitProlog == InitParse(PrologDocs)

SpecProlog == InitProlog /\ [][Next]_vars

StartsWith(t, p, w) == p + Len(w) <= Len(t) /\ SubSeq(t, p + 1, p + Len(w)) = w

\* Where the content starts: after the XML declaration at offset 0, and
\* after the spaces, comments, processing instructions (an XML declaration
\* further on reads as one) and the one document type declaration that
\* follow it.
RECURSIVE ContentStart(_, _, _)
ContentStart(t, p, seen_doctype) ==
    IF StartsWith(t, p, XmlDecl) THEN ContentStart(t, p + Len(XmlDecl), seen_doctype)
    ELSE IF StartsWith(t, p, CommentC) THEN ContentStart(t, p + Len(CommentC), seen_doctype)
    ELSE IF StartsWith(t, p, Str(<<" ">>)) THEN ContentStart(t, p + 1, seen_doctype)
    ELSE IF StartsWith(t, p, DoctypeDecl) /\ ~seen_doctype
    THEN ContentStart(t, p + Len(DoctypeDecl), TRUE)
    ELSE p

\* the offset of the first `<!DOCTYPE` at or after p, -1 if there is none
RECURSIVE NextDoctype(_, _)
NextDoctype(t, p) ==
    IF p >= Len(t) THEN -1
    ELSE IF StartsWith(t, p, DoctypeStart) THEN p
    ELSE NextDoctype(t, p + 1)

LateDoctype == NextDoctype(text, ContentStart(text, 0, FALSE))

\* C19: among the tokens an XmlDeclaration is the first or none, there is at
\* most one DocTypeDeclaration, and no StartTag, EndTag, Text, CdataSection
\* or Attribute token precedes it; a `<!DOCTYPE` after the content has
\* started makes tokenize fail.
C19_PrologTokens ==
    /\ \A i \in 1..Len(tokens) : tokens[i].type = "XmlDeclaration" => i = 1
    /\ \A i, j \in 1..Len(tokens) :
          (tokens[i].type = "DocTypeDeclaration" /\ tokens[j].type = "DocTypeDeclaration")
              => i = j
    /\ \A i, j \in 1..Len(tokens) :
          (i < j /\ tokens[j].type = "DocTypeDeclaration")
              => tokens[i].type
                    \notin {"StartTag", "EndTag", "Text", "CdataSection", "Attribute"}
    /\ (pc \in {"failed", "tokenized", "parsed"} /\ LateDoctype # -1)
          => /\ pc = "failed"
             /\ result.k = "err"
             /\ result.err.kind = "IllegalToken"
             /\ result.err.start = LateDoctype + 1

\* tokenize returned an XmlDeclaration, a DocTypeDeclaration and a StartTag
C19_Witness ==
    /\ pc = "tokenized"
    /\ Len(tokens) >= 3
    /\ tokens[1].type = "XmlDeclaration"
    /\ tokens[2].type = "DocTypeDeclaration"
    /\ tokens[3].type = "StartTag"


(***************************************************************************)
(* Inputs: one processing instruction in an element; after the first       *)
(* letter of the target come spaces, question marks, letters and `?>`.     *)
(***************************************************************************)
MaxPIFrags == 4

PIFragments == {Str(<<" ">>), Str(<<"?">>), Str(<<"q">>), PIEnd}

PIOpen == Str(<<"<", "r", ">">>) \o PIStart \o Str(<<"p">>)

PIDocs == {PIOpen \o w \o Str(<<"<", "/", "r", ">">>) : w \in Concats(PIFragments, MaxPIFrags)}

InitPI == InitParse(PIDocs)

SpecPI == InitPI /\ [][Next]_vars

\* the offsets where the target starts and where its name characters end
TargetAt == Len(Str(<<"<", "r", ">">>) \o PIStart)

TargetEnd == NameCharsEnd(text, TargetAt)

\* C20: a target that is followed neither by whitespace nor by `?>` makes
\* tokenize fail.
C20_DataNeedsSpace ==
    (/\ pc \in {"failed", "tokenized", "parsed"}
     /\ ~is_xml_whitespace(ByteAt(text, TargetEnd))
     /\ ~StartsWith(text, TargetEnd, PIEnd))
        => (pc = "failed" /\ result.k = "err")


(***************************************************************************)
(* Inputs: a DOCTYPE declaration with an internal subset, cut off or       *)
(* followed by the root element.                                            *)
(***************************************************************************)
MaxSubsetFrags == 3

PERef == Str(<<"%", "e", ";">>)

SubsetFragments ==
    {Str(<<"]">>), Str(<<">">>), Str(<<" ">>), PERef, Str(<<"<", "!", "E", ">">>),
     Str(<<"<", "r", "/", ">">>)}

SubsetDocs == {SubsetPrefix \o w : w \in Concats(SubsetFragments, MaxSubsetFrags)}

InitSubset == InitParse(SubsetDocs)

SpecSubset == InitSubset /\ [][Next]_vars

\* from offset p up to a `]` there are only whitespace and `%e;`
RECURSIVE SubsetClean(_, _)
SubsetClean(t, p) ==
    IF p >= Len(t) THEN FALSE
    ELSE IF t[p + 1] = Ch("]") THEN TRUE
    ELSE IF is_xml_whitespace(t[p + 1]) THEN SubsetClean(t, p + 1)
    ELSE IF StartsWith(t, p, PERef) THEN SubsetClean(t, p + Len(PERef))
    ELSE FALSE

\* C21: an internal subset that holds anything but whitespace and parameter
\* entity references, or that the input ends before its `]`, makes tokenize
\* return an error.
C21_SubsetRejected ==
    (/\ pc \in {"failed", "tokenized", "parsed"}
     /\ ~SubsetClean(text, Len(SubsetPrefix)))
        => (pc = "failed" /\ result.k = "err")


(***************************************************************************)
(* Inputs: an XML declaration up to the quote that opens the value of its  *)
(* standalone declaration, then `yes`, `no`, a lone `y`, quotes, spaces    *)
(* and `?><r/>`, cut off or not.                                            *)
(***************************************************************************)
MaxDeclFrags == 3

DeclFragments ==
    {Str(<<"'">>), Yes, No, Str(<<"y">>), Str(<<" ">>), PIEnd \o Str(<<"<", "r", "/", ">">>)}

DeclPrefix ==
    XmlDeclStart
        \o Str(<<" ", "v", "e", "r", "s", "i", "o", "n", "=", "'", "1", ".", "0", "'", " ">>)
        \o Standalone \o Str(<<"=", "'">>)

DeclDocs == {DeclPrefix \o w : w \in Concats(DeclFragments, MaxDeclFrags)}

InitDecl == InitParse(DeclDocs)

SpecDecl == InitDecl /\ [][Next]_vars

\* C22: the range of an IllegalToken, UnknownReference, UnexpectedXmlToken or
\* NonMatchingTags error lies in the input, start <= end <= length, with
\* both offsets on character boundaries, so that get_target can slice it.
C22_ErrorRanges ==
    (/\ result.k = "err"
     /\ result.err.kind
            \in {"IllegalToken", "UnknownReference", "UnexpectedXmlToken", "NonMatchingTags"})
        => /\ result.err.start <= result.err.end
           /\ result.err.end <= Len(text)
           /\ is_char_boundary(text, result.err.start)
           /\ is_char_boundary(text, result.err.end)
           /\ get_target(text, result.err) # <<-1>>


(***************************************************************************)
(* The cursor on its own: any of its operations in any order on a short    *)
(* text of whitespace, a letter and a two-byte character.  pc names the    *)
(* operation taken last, result holds what it returned.                     *)
(***************************************************************************)
MaxCursorFrags == 3

CursorFragments ==
    {Str(<<" ">>), Str(<<"\t">>), Str(<<"\n">>), Str(<<"\r">>), Str(<<"a">>), Utf8(233)}

CursorWords == {<<>>, Str(<<"a">>), Str(<<" ", "a">>), Str(<<"a", "a">>), Utf8(233)}

InitCursor ==
    /\ text \in Concats(CursorFragments, MaxCursorFrags)
    /\ pos = 0
    /\ pc = "cursor"
    /\ tokens = <<>>
    /\ result = Running
    /\ iters = 0
    /\ delimiter = Ch("<")

Bool(b, arg) == [k |-> "bool", b |-> b, arg |-> arg]

CursorPeekByte ==
    /\ LET r == peek_byte(text, pos) IN result' = r /\ pos' = r.pos
    /\ pc' = "peek_byte"
    /\ UNCHANGED <<text, tokens, iters, delimiter>>

CursorNextByte ==
    /\ LET r == next_byte(text, pos) IN result' = r /\ pos' = r.pos
    /\ pc' = "next_byte"
    /\ UNCHANGED <<text, tokens, iters, delimiter>>

CursorSkipOver ==
    /\ \E w \in CursorWords :
          LET r == skip_over(text, pos, w) IN result' = r /\ pos' = r.pos
    /\ pc' = "skip_over"
    /\ UNCHANGED <<text, tokens, iters, delimiter>>

CursorSkipSpaces ==
    /\ LET r == skip_spaces(text, pos) IN result' = r /\ pos' = r.pos
    /\ pc' = "skip_spaces"
    /\ UNCHANGED <<text, tokens, iters, delimiter>>

CursorTest ==
    /\ \E w \in CursorWords : result' = Bool(test(text, pos, w), w)
    /\ pc' = "test"
    /\ UNCHANGED <<text, pos, tokens, iters, delimiter>>

CursorTestByte ==
    /\ \E b \in {Ch(" "), Ch("a")} : result' = Bool(test_byte(text, pos, b), <<b>>)
    /\ pc' = "test_byte"
    /\ UNCHANGED <<text, pos, tokens, iters, delimiter>>

CursorTestAfterSpaces ==
    /\ \E w \in CursorWords :
          LET r == test_after_spaces_step(text, pos, w) IN
          result' = Bool(r.b, w) /\ pos' = r.pos
    /\ pc' = "test_after_spaces"
    /\ UNCHANGED <<text, tokens, iters, delimiter>>

NextCursor ==
    \/ CursorPeekByte
    \/ CursorNextByte
    \/ CursorSkipOver
    \/ CursorSkipSpaces
    \/ CursorTest
    \/ CursorTestByte
    \/ CursorTestAfterSpaces

SpecCursor == InitCursor /\ [][NextCursor]_vars

\* C23: peek_byte and next_byte return UnexpectedEndOfFile exactly when the
\* position is at or past the end, and then leave it alone; otherwise
\* peek_byte returns the byte at the position without moving, and next_byte
\* returns it and moves on by one.
C23_PeekNextByte ==
    [][/\ pc' = "peek_byte" =>
            IF pos >= Len(text)
            THEN /\ result'.k = "err"
                 /\ result'.err.kind = "UnexpectedEndOfFile"
                 /\ pos' = pos
            ELSE /\ result'.k = "ok"
                 /\ result'.b = text[pos + 1]
                 /\ pos' = pos
       /\ pc' = "next_byte" =>
            IF pos >= Len(text)
            THEN /\ result'.k = "err"
                 /\ result'.err.kind = "UnexpectedEndOfFile"
                 /\ pos' = pos
            ELSE /\ result'.k = "ok"
                 /\ result'.b = text[pos + 1]
                 /\ pos' = pos + 1]_vars

\* next_byte took the last byte, and a later next_byte failed at the end
C23_Witness ==
    /\ pc = "next_byte"
    /\ result.k = "err"
    /\ pos = Len(text)
    /\ pos > 0


\* C24: skip_spaces succeeds in every cursor state, also when the run of
\* whitespace reaches the end of the input or the cursor is already at the
\* end, and leaves the cursor on the first byte that is no whitespace, or
\* at the end.
C24_SkipSpaces ==
    [][pc' = "skip_spaces" =>
            (result'.k = "ok" /\ pos' = AfterSpaces(text, pos))]_vars

\* C25: test, test_byte and test_after_spaces leave the cursor where it is,
\* and test_after_spaces is true exactly when the bytes stand at the first
\* position at or after the cursor that holds no whitespace.
C25_TestsKeepPosition ==
    [][/\ pc' \in {"test", "test_byte", "test_after_spaces"} => pos' = pos
       /\ pc' = "test_after_spaces" =>
            (result'.b = StartsWith(text, AfterSpaces(text, pos), result'.arg))
       /\ pc' = "test" => (result'.b = StartsWith(text, pos, result'.arg))
       /\ pc' = "test_byte" => (result'.b = (ByteAt(text, pos) = result'.arg[1]))]_vars

\* test_after_spaces found the bytes behind whitespace and the cursor is
\* still in front of that whitespace
C25_Witness ==
    /\ pc = "test_after_spaces"
    /\ result.b
    /\ result.arg # <<>>
    /\ is_xml_whitespace(ByteAt(text, pos))
    /\ ~StartsWith(text, pos, result.arg)


(***************************************************************************)
(* Inputs: elements, attributes, text, comments, CDATA sections and        *)
(* processing instructions whose names and contents are the two-byte       *)
(* character U+00E9.                                                        *)
(***************************************************************************)
MaxRangeFrags == 3

E9 == Utf8(233)

RangeFragments ==
    {Str(<<"<">>) \o E9 \o Str(<<" ", "k", "=", "'">>) \o E9 \o Str(<<"'", ">">>),
     EndTagStart \o E9 \o TagEnd,
     E9,
     CommentStart \o E9 \o CommentEnd,
     CdataStart \o E9 \o CdataEnd,
     PIStart \o E9 \o Str(<<" ">>) \o E9 \o PIEnd,
     Str(<<"<", "b", "/", ">">>)}

RangeDocs == Concats(RangeFragments, MaxRangeFrags)

InitRanges == InitParse(RangeDocs)

SpecRanges == InitRanges /\ [][Next]_vars

\* the ranges a token holds
RangesOf(tok) ==
    IF tok.type = "Attribute" THEN {tok.name_range, tok.value_range}
    ELSE IF tok.type = "ProcessingInstruction"
    THEN {tok.target_range} \cup {tok.opt_value_range[i] : i \in 1..Len(tok.opt_value_range)}
    ELSE IF tok.type = "XmlDeclaration"
    THEN {tok.version_range}
            \cup {tok.opt_encoding_range[i] : i \in 1..Len(tok.opt_encoding_range)}
            \cup {tok.opt_standalone_range[i] : i \in 1..Len(tok.opt_standalone_range)}
    ELSE IF tok.type = "DocTypeDeclaration"
    THEN {tok.name_range}
            \cup {tok.opt_system_entity_range[i] : i \in 1..Len(tok.opt_system_entity_range)}
            \cup {tok.opt_public_entity_range[i] : i \in 1..Len(tok.opt_public_entity_range)}
    ELSE {tok.range}

\* the bytes of t from a to b are whole characters
RECURSIVE WholeChars(_, _, _)
WholeChars(t, a, b) ==
    IF a >= b THEN a = b
    ELSE CharAt(t, a) # -1 /\ WholeChars(t, a + len_utf8(CharAt(t, a)), b)

\* C26: every range of a token of a successful tokenize has
\* start <= end <= length of the input and both offsets on character
\* boundaries, so that its slice is whole characters of the input; a Text
\* token is not empty.
C26_TokenRanges ==
    pc \in {"tokenized", "parsed"} =>
        \A i \in 1..Len(tokens) :
            /\ \A r \in RangesOf(tokens[i]) :
                  /\ r.start <= r.end
                  /\ r.end <= Len(text)
                  /\ is_char_boundary(text, r.start)
                  /\ is_char_boundary(text, r.end)
                  /\ WholeChars(text, r.start, r.end)
                  /\ slice(text, r) = SubSeq(text, r.start + 1, r.end)
            /\ tokens[i].type = "Text" => tokens[i].range.start < tokens[i].range.end

\* tokenize returned an Attribute whose value is the two-byte character, a
\* Text token, and a token of another kind next to it
C26_Witness ==
    /\ pc = "tokenized"
    /\ \E i, j \in 1..Len(tokens) :
          /\ tokens[i].type = "Attribute"
          /\ slice(text, tokens[i].value_range) = E9
          /\ tokens[j].type = "Text"
          /\ slice(text, tokens[j].range) = E9
          /\ j < Len(tokens)


\* the start of the first range of a token
FirstStart(tok) ==
    IF tok.type \in {"Attribute", "DocTypeDeclaration"} THEN tok.name_range.start
    ELSE IF tok.type = "ProcessingInstruction" THEN tok.target_range.start
    ELSE IF tok.type = "XmlDeclaration" THEN tok.version_range.start
    ELSE tok.range.start

\* C27 as stated: the tokens of a successful tokenize are in source order,
\* the start of the first range of a token is at most that of every later
\* token.
C27_SourceOrder ==
    pc \in {"tokenized", "parsed"} =>
        \A i, j \in 1..Len(tokens) :
            i < j => FirstStart(tokens[i]) <= FirstStart(tokens[j])

\* an EndTag whose name does not stand behind `</`: the one made for an
\* empty-element tag
IsArtificialEndTag(tok) ==
    /\ tok.type = "EndTag"
    /\ ~(/\ tok.range.start >= Len(EndTagStart)
         /\ StartsWith(text, tok.range.start - Len(EndTagStart), EndTagStart))

\* C27, amended: the tokens of a successful tokenize are in source order,
\* except that the EndTag made for an empty-element tag holds the range of
\* its StartTag and stands behind that tag's Attribute tokens.
C27_SourceOrderButArtificial ==
    pc \in {"tokenized", "parsed"} =>
        \A j \in 1..Len(tokens) :
            IF IsArtificialEndTag(tokens[j])
            THEN \E k \in 1..(j - 1) :
                    /\ tokens[k] = StartTag(tokens[j].range)
                    /\ \A m \in (k + 1)..(j - 1) : tokens[m].type = "Attribute"
            ELSE \A i \in 1..(j - 1) : FirstStart(tokens[i]) <= FirstStart(tokens[j])

\* tokenize returned the tokens of an empty-element tag with attributes,
\* and a token behind them
C27_Witness ==
    /\ pc = "tokenized"
    /\ \E j \in 3..(Len(tokens) - 1) :
          /\ IsArtificialEndTag(tokens[j])
          /\ tokens[j - 1].type = "Attribute"
          /\ FirstStart(tokens[j + 1]) > FirstStart(tokens[j - 1])


\* where the cursor stands: at the position a failed production left it,
\* or at the position reached so far
CursorNow == IF pc = "failed" /\ result.k = "err" THEN result.pos ELSE pos

\* C28: whatever cursor operations tokenize has performed, the cursor is at
\* most at the end of the input and on a character boundary.
C28_CursorInBounds ==
    /\ CursorNow <= Len(text)
    /\ is_char_boundary(text, CursorNow)


\* how many tokens of a type there are
CountTokens(toks, type) == Cardinality({i \in 1..Len(toks) : toks[i].type = type})

\* C29: when the tokens leave an element open (more start tags than end
\* tags), parse returns an error value: the tree builder reads no token
\* behind the last one.
C29_UnclosedIsError ==
    (/\ pc = "parsed"
     /\ CountTokens(tokens, "StartTag") > CountTokens(tokens, "EndTag"))
        => result.k = "err"


(***************************************************************************)
(* Inputs: a DOCTYPE declaration with a PUBLIC identifier, from the quote   *)
(* that opens the public literal on: letters, quotes, a tab, a space, and   *)
(* a system literal with the rest of the document.                          *)
(***************************************************************************)
MaxPubidFrags == 3

PubidPrefix == DoctypeStart \o Str(<<" ", "r", " ">>) \o Public \o Str(<<" ", "'">>)

PubidFragments ==
    {Str(<<"p">>), Str(<<"'">>), Str(<<"\"">>), Str(<<"\t">>), Str(<<" ">>),
     Str(<<"'", "s", "'", ">", "<", "r", "/", ">">>)}

PubidDocs == {PubidPrefix \o w : w \in Concats(PubidFragments, MaxPubidFrags)}

InitPubid == InitParse(PubidDocs)

SpecPubid == InitPubid /\ [][Next]_vars

\* the end of the run of PubidChars other than the opening quote from p
RECURSIVE PubidEnd(_, _)
PubidEnd(t, p) ==
    IF p < Len(t) /\ is_xml_pubid_char(t[p + 1]) /\ t[p + 1] # Ch("'")
    THEN PubidEnd(t, p + 1)
    ELSE p

\* C30: when the run of PubidChars of the public literal ends at a byte
\* that is not the quote that opened it, tokenize fails.
C30_PubidLiteralClosed ==
    (/\ pc \in {"failed", "tokenized", "parsed"}
     /\ ByteAt(text, PubidEnd(text, Len(PubidPrefix))) # Ch("'"))
        => (pc = "failed" /\ result.k = "err")

====
